---- MODULE Spec2Model ----
(***************************************************************************)
(* Model of the mempool transaction cache (package txcache): the two       *)
(* cooperating maps (txByHash, txListBySender), AddTx, RemoveTxByHash,     *)
(* Clear and the eviction engine.                                          *)
(*                                                                         *)
(* TxCache's own methods are translated from txCache.go and eviction.go.   *)
(* The maps below the facade (txByHashMap, txListBySenderMap,              *)
(* txListForSender, the eviction heap) are modelled from their described   *)
(* behaviour: insertion in nonce order, shrinking from the tail until the  *)
(* per-sender limits hold, removal by nonce range.                         *)
(***************************************************************************)
EXTENDS Integers, Sequences, FiniteSets, TLC

\* ----------------------------------------------------------------- bounds
NumTxs == 8
NumSenders == 2
MaxNonce == 3
MaxSize == 2
MaxPrice == 3
PerSenderCountLimit == 2
PerSenderBytesLimit == 3
GlobalCountLimit == 2
MaxBatch == 2
GlobalBytesLimit == 3
NumProcs == 2
NumConcTxs == 5
NumEvictTxs == 3
NumSelTxs == 6
MaxGasLimit == 2
MaxFee == 2
MaxAccountNonce == 2
SmallBalance == 2
SmallGas == 3
SmallMaxNum == 2
SmallIterations == 3
MaxConsumed == 4
NumAdapterKeys == 3
CacherCapacity == 2
MaxStored == 3

\* ----------------------------------------------------- transaction universe
\* A transaction is identified by its hash; its fields are fixed by the hash.
Hashes == 1..NumTxs
Senders == 1..NumSenders

SenderOf(h) == ((h - 1) % NumSenders) + 1
NonceOf(h) == (((h - 1) \div NumSenders) % MaxNonce) + 1
SizeOf(h) == (((h - 1) \div 2) % MaxSize) + 1
GasPriceOf(h) == (((h \div 2) + (h \div 8)) % MaxPrice) + 1
PricePerUnitOf(h) == GasPriceOf(h)

\* The wrappers AddTx can be called with: nil, a wrapper whose Tx is nil (it
\* still carries a hash), or a wrapper of a transaction.
NilWrapper == [kind |-> "nil", hash |-> "none"]
Wrappers ==
    {NilWrapper}
        \cup {[kind |-> "nilTx", hash |-> h] : h \in Hashes}
        \cup {[kind |-> "tx", hash |-> h] : h \in Hashes}

\* ----------------------------------------------------------- configuration
\* A threshold that no content of the universe can reach.
NotBinding == NumTxs * MaxSize + 1

ConfigsWithoutEviction ==
    {[EvictionEnabled |-> FALSE,
      NumBytesThreshold |-> NotBinding,
      CountThreshold |-> NotBinding,
      NumBytesPerSenderThreshold |-> b,
      CountPerSenderThreshold |-> c,
      NumItemsToPreemptivelyEvict |-> 1] :
        b \in {PerSenderBytesLimit, NotBinding},
        c \in {PerSenderCountLimit, NotBinding}}

ConfigsWithEviction ==
    {[EvictionEnabled |-> TRUE,
      NumBytesThreshold |-> NotBinding,
      CountThreshold |-> GlobalCountLimit,
      NumBytesPerSenderThreshold |-> NotBinding,
      CountPerSenderThreshold |-> c,
      NumItemsToPreemptivelyEvict |-> n] :
        c \in {PerSenderCountLimit, NotBinding},
        n \in 1..MaxBatch}

\* Eviction driven by the bytes threshold, and by the number of senders.
ConfigsWithTightCapacity ==
    {[EvictionEnabled |-> TRUE,
      NumBytesThreshold |-> GlobalBytesLimit,
      CountThreshold |-> NotBinding,
      NumBytesPerSenderThreshold |-> NotBinding,
      CountPerSenderThreshold |-> NotBinding,
      NumItemsToPreemptivelyEvict |-> 1],
     [EvictionEnabled |-> TRUE,
      NumBytesThreshold |-> NotBinding,
      CountThreshold |-> 1,
      NumBytesPerSenderThreshold |-> NotBinding,
      CountPerSenderThreshold |-> NotBinding,
      NumItemsToPreemptivelyEvict |-> 1]}

Configs == ConfigsWithoutEviction \cup ConfigsWithEviction \cup ConfigsWithTightCapacity

\* ------------------------------------------------------------------ helpers
RECURSIVE SumSizes(_)
SumSizes(list) ==
    IF list = <<>> THEN 0 ELSE SizeOf(Head(list)) + SumSizes(Tail(list))

Range(list) == {list[i] : i \in 1..Len(list)}

Reverse(list) == [i \in 1..Len(list) |-> list[Len(list) + 1 - i]]

\* ------------------------------------------------------------- the cache
\* txByHash: the keys of the hash map; counter, numBytes: its counters.
\* txListBySender: sender -> list of hashes, defined on the senders that have
\* a list; senderCounter: the sender map's counter.
EmptyCache ==
    [txByHash |-> {},
     counter |-> 0,
     numBytes |-> 0,
     txListBySender |-> << >>,
     senderCounter |-> 0]

\* -- txByHashMap
HashAddTx(c, h) ==
    IF h \in c.txByHash
    THEN c
    ELSE [c EXCEPT !.txByHash = @ \cup {h},
                   !.counter = @ + 1,
                   !.numBytes = @ + SizeOf(h)]

HashRemoveTx(c, h) ==
    IF h \notin c.txByHash
    THEN c
    ELSE [c EXCEPT !.txByHash = @ \ {h},
                   !.counter = @ - 1,
                   !.numBytes = @ - SizeOf(h)]

RECURSIVE RemoveTxsBulk(_, _)
RemoveTxsBulk(c, hashes) ==
    IF hashes = <<>>
    THEN c
    ELSE RemoveTxsBulk(HashRemoveTx(c, Head(hashes)), Tail(hashes))

\* -- txListForSender
\* The list order: ascending nonce, then descending gas price, then ascending hash.
Precedes(a, b) ==
    \/ NonceOf(a) < NonceOf(b)
    \/ /\ NonceOf(a) = NonceOf(b)
       /\ \/ GasPriceOf(a) > GasPriceOf(b)
          \/ GasPriceOf(a) = GasPriceOf(b) /\ a < b

\* The place after which an incoming transaction goes: searched from the back.
RECURSIVE FindInsertionPlace(_, _, _)
FindInsertionPlace(list, h, i) ==
    IF i = 0 THEN 0
    ELSE IF Precedes(list[i], h) THEN i
    ELSE FindInsertionPlace(list, h, i - 1)

IsListCapacityExceeded(list, cfg) ==
    \/ SumSizes(list) > cfg.NumBytesPerSenderThreshold
    \/ Len(list) > cfg.CountPerSenderThreshold

\* Mutant of ApplySizeConstraints: drops one transaction at most.
ApplySizeConstraints_DropsOne(list, evicted, cfg) ==
    IF list = <<>> \/ ~IsListCapacityExceeded(list, cfg)
    THEN [list |-> list, evicted |-> evicted]
    ELSE [list |-> SubSeq(list, 1, Len(list) - 1),
          evicted |-> Append(evicted, list[Len(list)])]

\* Drops transactions from the back of the list until the limits hold.
RECURSIVE ApplySizeConstraints(_, _, _)
ApplySizeConstraints(list, evicted, cfg) ==
    IF list = <<>> \/ ~IsListCapacityExceeded(list, cfg)
    THEN [list |-> list, evicted |-> evicted]
    ELSE ApplySizeConstraints(SubSeq(list, 1, Len(list) - 1),
                              Append(evicted, list[Len(list)]), cfg)

ListAddTx(list, h, cfg) ==
    IF h \in Range(list)
    THEN [added |-> FALSE, list |-> list, evicted |-> <<>>]
    ELSE LET k == FindInsertionPlace(list, h, Len(list))
             inserted == SubSeq(list, 1, k) \o <<h>> \o SubSeq(list, k + 1, Len(list))
             shrunk == ApplySizeConstraints(inserted, <<>>, cfg)
         IN [added |-> TRUE, list |-> shrunk.list, evicted |-> shrunk.evicted]

\* Removes from the front while the nonce is lower or equal.
RECURSIVE ListRemoveLowerOrEqual(_, _, _)
ListRemoveLowerOrEqual(list, nonce, evicted) ==
    IF list = <<>> \/ NonceOf(Head(list)) > nonce
    THEN [list |-> list, evicted |-> evicted]
    ELSE ListRemoveLowerOrEqual(Tail(list), nonce, Append(evicted, Head(list)))

\* A variant that removes from the back while the nonce is strictly higher.
RECURSIVE ListRemoveHigherOrEqual_StrictlyHigher(_, _)
ListRemoveHigherOrEqual_StrictlyHigher(list, nonce) ==
    IF list = <<>> \/ NonceOf(list[Len(list)]) <= nonce
    THEN list
    ELSE ListRemoveHigherOrEqual_StrictlyHigher(SubSeq(list, 1, Len(list) - 1), nonce)

\* Removes from the back while the nonce is higher or equal.
RECURSIVE ListRemoveHigherOrEqual(_, _)
ListRemoveHigherOrEqual(list, nonce) ==
    IF list = <<>> \/ NonceOf(list[Len(list)]) < nonce
    THEN list
    ELSE ListRemoveHigherOrEqual(SubSeq(list, 1, Len(list) - 1), nonce)

\* -- txListBySenderMap
HasSender(c, s) == s \in DOMAIN c.txListBySender

ListOf(c, s) == IF HasSender(c, s) THEN c.txListBySender[s] ELSE <<>>

\* A variant that keeps the list of no other sender.
SetList_DropsOthers(c, s, list) ==
    [c EXCEPT !.txListBySender = [x \in {s} |-> list]]

SetList(c, s, list) ==
    [c EXCEPT !.txListBySender =
        [x \in (DOMAIN c.txListBySender) \cup {s} |->
            IF x = s THEN list ELSE c.txListBySender[x]]]

GetOrAddListForSender(c, s) ==
    IF HasSender(c, s)
    THEN c
    ELSE [SetList(c, s, <<>>) EXCEPT !.senderCounter = @ + 1]

RemoveSenderIfEmpty(c, s) ==
    IF HasSender(c, s) /\ c.txListBySender[s] = <<>>
    THEN [c EXCEPT !.txListBySender =
                       [x \in (DOMAIN c.txListBySender) \ {s} |-> c.txListBySender[x]],
                   !.senderCounter = @ - 1]
    ELSE c

AddTxReturnEvicted(c, h, cfg) ==
    LET s == SenderOf(h)
        c1 == GetOrAddListForSender(c, s)
        r == ListAddTx(c1.txListBySender[s], h, cfg)
    IN [cache |-> SetList(c1, s, r.list), added |-> r.added, evicted |-> r.evicted]

RemoveTransactionsWithLowerOrEqualNonceReturnHashes(c, h) ==
    LET s == SenderOf(h)
    IN IF ~HasSender(c, s)
       THEN [cache |-> c, evicted |-> <<>>]
       ELSE LET r == ListRemoveLowerOrEqual(c.txListBySender[s], NonceOf(h), <<>>)
            IN [cache |-> RemoveSenderIfEmpty(SetList(c, s, r.list), s),
                evicted |-> r.evicted]

RemoveTransactionsWithHigherOrEqualNonce(c, s, nonce) ==
    IF ~HasSender(c, s)
    THEN c
    ELSE RemoveSenderIfEmpty(
             SetList(c, s, ListRemoveHigherOrEqual(c.txListBySender[s], nonce)), s)

\* ---------------------------------------------------------------- eviction
NumBytes(c) == c.numBytes
CountTx(c) == c.counter
CountSenders(c) == c.senderCounter

areThereTooManyBytes(c, cfg) == NumBytes(c) > cfg.NumBytesThreshold
areThereTooManySenders(c, cfg) == CountSenders(c) > cfg.CountThreshold
\* Mutant of areThereTooManyTxs: the threshold itself counts as too many.
areThereTooManyTxs_AtThreshold(c, cfg) == CountTx(c) >= cfg.CountThreshold

areThereTooManyTxs(c, cfg) == CountTx(c) > cfg.CountThreshold

isCapacityExceeded(c, cfg) ==
    areThereTooManyBytes(c, cfg) \/ areThereTooManySenders(c, cfg) \/ areThereTooManyTxs(c, cfg)

\* -- the heap of cursors: one item per non-empty bunch
IsTransactionMoreValuableForNetwork(a, b) ==
    IF PricePerUnitOf(a) # PricePerUnitOf(b)
    THEN PricePerUnitOf(a) > PricePerUnitOf(b)
    ELSE a < b

CurrentTransaction(item) == item.bunch[item.index]

\* The top of the min-heap: the item whose transaction is the least valuable.
HeapTop(heap) ==
    CHOOSE item \in heap :
        \A other \in heap \ {item} :
            IsTransactionMoreValuableForNetwork(CurrentTransaction(other),
                                                CurrentTransaction(item))

GotoNextTransaction(item) == [item EXCEPT !.index = @ + 1]

HasNextTransaction(item) == item.index + 1 <= Len(item.bunch)

\* Snapshot of the senders: each bunch is the sender's list reversed.
InitialHeap(c) ==
    {[sender |-> s, bunch |-> Reverse(c.txListBySender[s]), index |-> 1] :
        s \in {x \in DOMAIN c.txListBySender : c.txListBySender[x] # <<>>}}

\* A variant whose batch is full one transaction later.
RECURSIVE SelectTransactionsToEvict_OneMore(_, _, _)
SelectTransactionsToEvict_OneMore(heap, transactionsToEvict, cfg) ==
    IF heap = {}
    THEN [heap |-> heap, transactionsToEvict |-> transactionsToEvict]
    ELSE LET item == HeapTop(heap)
             popped == heap \ {item}
         IN IF Len(transactionsToEvict) > cfg.NumItemsToPreemptivelyEvict
            THEN [heap |-> popped, transactionsToEvict |-> transactionsToEvict]
            ELSE SelectTransactionsToEvict_OneMore(
                     IF HasNextTransaction(item)
                     THEN popped \cup {GotoNextTransaction(item)}
                     ELSE popped,
                     Append(transactionsToEvict, CurrentTransaction(item)),
                     cfg)

\* The inner loop of a pass (eviction.go 120-138): pops until the heap is empty
\* or enough was collected; the item popped when enough was collected is not
\* pushed back.
RECURSIVE SelectTransactionsToEvict(_, _, _)
SelectTransactionsToEvict(heap, transactionsToEvict, cfg) ==
    IF heap = {}
    THEN [heap |-> heap, transactionsToEvict |-> transactionsToEvict]
    ELSE LET item == HeapTop(heap)
             popped == heap \ {item}
         IN IF Len(transactionsToEvict) >= cfg.NumItemsToPreemptivelyEvict
            THEN [heap |-> popped, transactionsToEvict |-> transactionsToEvict]
            ELSE SelectTransactionsToEvict(
                     IF HasNextTransaction(item)
                     THEN popped \cup {GotoNextTransaction(item)}
                     ELSE popped,
                     Append(transactionsToEvict, CurrentTransaction(item)),
                     cfg)

\* A variant that keeps the nonce written first for a sender.
RECURSIVE LowestToEvictBySender_FirstWins(_, _)
LowestToEvictBySender_FirstWins(transactionsToEvict, lowest) ==
    IF transactionsToEvict = <<>>
    THEN lowest
    ELSE LET h == Head(transactionsToEvict)
         IN LowestToEvictBySender_FirstWins(
                Tail(transactionsToEvict),
                [s \in (DOMAIN lowest) \cup {SenderOf(h)} |->
                    IF s \in DOMAIN lowest THEN lowest[s] ELSE NonceOf(h)])

\* lowestToEvictBySender (eviction.go 147-152): the nonce written last wins.
RECURSIVE LowestToEvictBySender(_, _)
LowestToEvictBySender(transactionsToEvict, lowest) ==
    IF transactionsToEvict = <<>>
    THEN lowest
    ELSE LET h == Head(transactionsToEvict)
         IN LowestToEvictBySender(
                Tail(transactionsToEvict),
                [s \in (DOMAIN lowest) \cup {SenderOf(h)} |->
                    IF s = SenderOf(h) THEN NonceOf(h) ELSE lowest[s]])

RECURSIVE RemoveFromSenders(_, _, _)
RemoveFromSenders(c, lowest, senders) ==
    IF senders = {}
    THEN c
    ELSE LET s == CHOOSE x \in senders : TRUE
         IN RemoveFromSenders(RemoveTransactionsWithHigherOrEqualNonce(c, s, lowest[s]),
                              lowest, senders \ {s})

\* The removals of one pass (eviction.go 145-160).
EvictCollected(c, transactionsToEvict) ==
    LET lowest == LowestToEvictBySender(transactionsToEvict, << >>)
        c1 == RemoveFromSenders(c, lowest, DOMAIN lowest)
    IN RemoveTxsBulk(c1, transactionsToEvict)

\* The pass loop (eviction.go 115-166).
RECURSIVE EvictionPasses(_, _, _, _)
EvictionPasses(c, heap, journal, cfg) ==
    IF ~isCapacityExceeded(c, cfg)
    THEN [cache |-> c, journal |-> journal]
    ELSE LET sel == SelectTransactionsToEvict(heap, <<>>, cfg)
         IN IF Len(sel.transactionsToEvict) = 0
            THEN [cache |-> c, journal |-> journal]
            ELSE EvictionPasses(EvictCollected(c, sel.transactionsToEvict),
                                sel.heap,
                                Append(journal, Len(sel.transactionsToEvict)),
                                cfg)

evictLeastLikelyToSelectTransactions(c, cfg) ==
    EvictionPasses(c, InitialHeap(c), <<>>, cfg)

\* The passes of the loop one by one (eviction.go 115-166): for every pass that
\* starts, the heap and the cache it starts with, what it collects, the nonce
\* it keeps per sender, and the heap and the cache it leaves. A pass that
\* collects nothing removes nothing and is the last one.
RECURSIVE EvictionPassRecords(_, _, _, _)
EvictionPassRecords(c, heap, records, cfg) ==
    IF ~isCapacityExceeded(c, cfg)
    THEN records
    ELSE LET sel == SelectTransactionsToEvict(heap, <<>>, cfg)
             collectedNone == Len(sel.transactionsToEvict) = 0
             after == IF collectedNone THEN c ELSE EvictCollected(c, sel.transactionsToEvict)
             record == [heapBefore |-> heap,
                        cacheBefore |-> c,
                        transactionsToEvict |-> sel.transactionsToEvict,
                        lowestToEvictBySender |->
                            LowestToEvictBySender(sel.transactionsToEvict, << >>),
                        heapAfter |-> sel.heap,
                        cacheAfter |-> after]
         IN IF collectedNone
            THEN Append(records, record)
            ELSE EvictionPassRecords(after, sel.heap, Append(records, record), cfg)

\* Mutant of doEviction: the capacity check is inverted, so nothing is evicted
\* when the capacity is exceeded.
doEviction_SkipsWhenExceeded(c, cfg) ==
    IF isCapacityExceeded(c, cfg)
    THEN [cache |-> c, journal |-> <<>>, ran |-> FALSE]
    ELSE LET r == evictLeastLikelyToSelectTransactions(c, cfg)
         IN [cache |-> r.cache, journal |-> r.journal, ran |-> TRUE]

\* doEviction with no other eviction in progress. The journal is the list of
\* the numbers evicted by pass; ran is FALSE when doEviction returns nil.
doEviction(c, cfg) ==
    IF ~isCapacityExceeded(c, cfg)
    THEN [cache |-> c, journal |-> <<>>, ran |-> FALSE]
    ELSE LET r == evictLeastLikelyToSelectTransactions(c, cfg)
         IN [cache |-> r.cache, journal |-> r.journal, ran |-> TRUE]

\* ------------------------------------------------------------ construction
\* The configurations NewTxCache can be given: each field valid, or invalid in
\* one of the ways verify() rejects. The byte thresholds have an upper bound.
maxNumBytesUpperBound == NotBinding
maxNumBytesPerSenderUpperBound == NotBinding

ConstructorConfigs ==
    [Name : {"", "test"},
     NumChunks : {0, 1},
     NumBytesThreshold : {0, maxNumBytesUpperBound, maxNumBytesUpperBound + 1},
     NumBytesPerSenderThreshold :
         {0, maxNumBytesPerSenderUpperBound, maxNumBytesPerSenderUpperBound + 1},
     CountThreshold : {0, NotBinding},
     CountPerSenderThreshold : {0, NotBinding},
     EvictionEnabled : BOOLEAN,
     NumItemsToPreemptivelyEvict : {1}]

Hosts == {"nil", "host"}

\* verify(): TRUE when the configuration is accepted.
verify(cfg) ==
    /\ cfg.Name # ""
    /\ cfg.NumChunks # 0
    /\ cfg.NumBytesPerSenderThreshold # 0
    /\ cfg.NumBytesPerSenderThreshold <= maxNumBytesPerSenderUpperBound
    /\ cfg.CountPerSenderThreshold # 0
    /\ cfg.NumBytesThreshold # 0
    /\ cfg.NumBytesThreshold <= maxNumBytesUpperBound
    /\ cfg.CountThreshold # 0

\* Mutant of NewTxCache: the host is checked before the configuration.
NewTxCache_HostCheckedFirst(cfg, host) ==
    IF host = "nil"
    THEN [created |-> FALSE, err |-> "errNilMempoolHost"]
    ELSE IF ~verify(cfg)
    THEN [created |-> FALSE, err |-> "ErrInvalidConfig"]
    ELSE [created |-> TRUE, err |-> "nil"]

\* NewTxCache (txCache.go 29-54): whether a cache is returned, and the error.
NewTxCache(cfg, host) ==
    IF ~verify(cfg)
    THEN [created |-> FALSE, err |-> "ErrInvalidConfig"]
    ELSE IF host = "nil"
    THEN [created |-> FALSE, err |-> "errNilMempoolHost"]
    ELSE [created |-> TRUE, err |-> "nil"]

\* ------------------------------------------------- the facade, call by call
\* Mutant of AddTxInsertion: the evicted hashes are left in txByHash.
AddTxInsertion_KeepsEvictedHashes(c, h, cfg) ==
    LET addedInByHash == h \notin c.txByHash
        c1 == HashAddTx(c, h)
        r == AddTxReturnEvicted(c1, h, cfg)
    IN [cache |-> r.cache,
        added |-> addedInByHash \/ r.added,
        evicted |-> r.evicted]

\* Mutant of AddTxInsertion: "added" is reported whatever the maps did.
AddTxInsertion_AlwaysReportsAdded(c, h, cfg) ==
    LET c1 == HashAddTx(c, h)
        r == AddTxReturnEvicted(c1, h, cfg)
        c2 == IF Len(r.evicted) > 0 THEN RemoveTxsBulk(r.cache, r.evicted) ELSE r.cache
    IN [cache |-> c2, added |-> TRUE, evicted |-> r.evicted]

\* Mutant of AddTxInsertion: "added" tells what txByHash did only.
AddTxInsertion_ReportsByHashOnly(c, h, cfg) ==
    LET addedInByHash == h \notin c.txByHash
        c1 == HashAddTx(c, h)
        r == AddTxReturnEvicted(c1, h, cfg)
        c2 == IF Len(r.evicted) > 0 THEN RemoveTxsBulk(r.cache, r.evicted) ELSE r.cache
    IN [cache |-> c2, added |-> addedInByHash, evicted |-> r.evicted]

\* Mutant of AddTxInsertion: "added" is reported only for a transaction that
\* the per-sender limits left in the cache.
AddTxInsertion_ReportsAddedIfKept(c, h, cfg) ==
    LET addedInByHash == h \notin c.txByHash
        c1 == HashAddTx(c, h)
        r == AddTxReturnEvicted(c1, h, cfg)
        c2 == IF Len(r.evicted) > 0 THEN RemoveTxsBulk(r.cache, r.evicted) ELSE r.cache
    IN [cache |-> c2,
        added |-> (addedInByHash \/ r.added) /\ h \notin Range(r.evicted),
        evicted |-> r.evicted]

\* The insertion of AddTx (txCache.go 71-87): both maps, then the bulk removal
\* of what the sender's list evicted.
AddTxInsertion(c, h, cfg) ==
    LET addedInByHash == h \notin c.txByHash
        c1 == HashAddTx(c, h)
        r == AddTxReturnEvicted(c1, h, cfg)
        c2 == IF Len(r.evicted) > 0 THEN RemoveTxsBulk(r.cache, r.evicted) ELSE r.cache
    IN [cache |-> c2,
        added |-> addedInByHash \/ r.added,
        evicted |-> r.evicted]

\* Mutant of AddTx: the eviction runs before the nil check.
AddTx_EvictsBeforeNilCheck(c, w, cfg) ==
    LET e == IF cfg.EvictionEnabled
             THEN doEviction(c, cfg)
             ELSE [cache |-> c, journal |-> <<>>, ran |-> FALSE]
    IN IF w.kind # "tx"
       THEN [cache |-> e.cache, ok |-> FALSE, added |-> FALSE, evicted |-> <<>>,
             beforeInsertion |-> e.cache, evictionRan |-> e.ran]
       ELSE LET r == AddTxInsertion(e.cache, w.hash, cfg)
            IN [cache |-> r.cache, ok |-> TRUE, added |-> r.added, evicted |-> r.evicted,
                beforeInsertion |-> e.cache, evictionRan |-> e.ran]

\* AddTx executed with no other call in flight (txCache.go 58-92).
\* beforeInsertion is the cache between the eviction and the insertion.
AddTx(c, w, cfg) ==
    IF w.kind # "tx"
    THEN [cache |-> c, ok |-> FALSE, added |-> FALSE, evicted |-> <<>>,
          beforeInsertion |-> c, evictionRan |-> FALSE]
    ELSE LET e == IF cfg.EvictionEnabled
                  THEN doEviction(c, cfg)
                  ELSE [cache |-> c, journal |-> <<>>, ran |-> FALSE]
             r == AddTxInsertion(e.cache, w.hash, cfg)
         IN [cache |-> r.cache, ok |-> TRUE, added |-> r.added, evicted |-> r.evicted,
             beforeInsertion |-> e.cache, evictionRan |-> e.ran]

GetByTxHash(c, h) == h \in c.txByHash

\* Mutant of RemoveTxByHash: the cascaded hashes are left in txByHash.
RemoveTxByHash_KeepsCascadedHashes(c, h) ==
    IF h \notin c.txByHash
    THEN [cache |-> c, removed |-> FALSE, evicted |-> <<>>]
    ELSE LET c1 == HashRemoveTx(c, h)
             r == RemoveTransactionsWithLowerOrEqualNonceReturnHashes(c1, h)
         IN [cache |-> r.cache, removed |-> TRUE, evicted |-> r.evicted]

\* Mutant of RemoveTxByHash: a missing hash does not stop the cascade.
RemoveTxByHash_CascadesWhenMissing(c, h) ==
    LET c1 == HashRemoveTx(c, h)
        r == RemoveTransactionsWithLowerOrEqualNonceReturnHashes(c1, h)
        c2 == IF Len(r.evicted) > 0 THEN RemoveTxsBulk(r.cache, r.evicted) ELSE r.cache
    IN [cache |-> c2, removed |-> h \in c.txByHash, evicted |-> r.evicted]

\* Mutant of RemoveTxByHash: a hash that its sender's list does not hold is
\* reported as missing.
RemoveTxByHash_LooksInListFirst(c, h) ==
    IF h \notin c.txByHash \/ h \notin Range(ListOf(c, SenderOf(h)))
    THEN [cache |-> c, removed |-> FALSE, evicted |-> <<>>]
    ELSE LET c1 == HashRemoveTx(c, h)
             r == RemoveTransactionsWithLowerOrEqualNonceReturnHashes(c1, h)
             c2 == IF Len(r.evicted) > 0 THEN RemoveTxsBulk(r.cache, r.evicted) ELSE r.cache
         IN [cache |-> c2, removed |-> TRUE, evicted |-> r.evicted]

\* RemoveTxByHash executed with no other call in flight (txCache.go 140-157).
RemoveTxByHash(c, h) ==
    IF h \notin c.txByHash
    THEN [cache |-> c, removed |-> FALSE, evicted |-> <<>>]
    ELSE LET c1 == HashRemoveTx(c, h)
             r == RemoveTransactionsWithLowerOrEqualNonceReturnHashes(c1, h)
             c2 == IF Len(r.evicted) > 0 THEN RemoveTxsBulk(r.cache, r.evicted) ELSE r.cache
         IN [cache |-> c2, removed |-> TRUE, evicted |-> r.evicted]

Clear(c) == EmptyCache

\* --------------------------------------------------------------- selection
\* The fields of a transaction the selection reads, fixed by the hash as above.
\* Fee and TransferredValue are *big.Int: NilAmount stands for nil, which no
\* transaction of SelHashes carries (the host computes both as integers); the
\* transactions above NumSelTxs carry no fee and no value.
NilAmount == -1

SelHashes == 1..NumSelTxs

GasLimitOf(h) == (h % MaxGasLimit) + 1
FeeOf(h) == IF h > NumSelTxs THEN NilAmount ELSE ((h \div 2) % MaxFee) + 1
TransferredValueOf(h) == IF h > NumSelTxs THEN NilAmount ELSE h % 2

\* A relayed transaction is paid for by another account than its sender.
FeePayerOf(h) == IF h % 5 = 0 THEN (SenderOf(h) % NumSenders) + 1 ELSE SenderOf(h)

\* What a session answers: per address an account state or an error, and the
\* transactions it reports as incorrectly guarded.
NilSession == [kind |-> "nil"]

AccountStates ==
    {[err |-> TRUE, Nonce |-> 0, Balance |-> 0]}
        \cup {[err |-> FALSE, Nonce |-> 1, Balance |-> SmallBalance]}
        \cup {[err |-> FALSE, Nonce |-> n, Balance |-> NotBinding] : n \in 1..MaxAccountNonce}

Sessions ==
    {[kind |-> "session", accounts |-> a, guarded |-> g] :
        a \in [Senders -> AccountStates],
        g \in {{}} \cup {{h} : h \in {x \in SelHashes : x % 3 = 0}}}

\* A variant whose record for a failed request has a balance no fee exceeds.
getAccountRecord_ErrorAsUnlimited(records, session, address) ==
    IF address \in DOMAIN records
    THEN records
    ELSE LET state == session.accounts[address]
             record == IF state.err
                       THEN [initialNonce |-> 0, initialBalance |-> NotBinding,
                             consumedBalance |-> 0]
                       ELSE [initialNonce |-> state.Nonce,
                             initialBalance |-> state.Balance,
                             consumedBalance |-> 0]
         IN [a \in (DOMAIN records) \cup {address} |->
                IF a = address THEN record ELSE records[a]]

\* -- the session wrapper (selectionSessionWrapper.go)
\* recordsByAddress after getAccountRecord(address): the record is created on
\* the first call, from the account state or, on an error, as {0, 0, 0}.
getAccountRecord(records, session, address) ==
    IF address \in DOMAIN records
    THEN records
    ELSE LET state == session.accounts[address]
             record == IF state.err
                       THEN [initialNonce |-> 0, initialBalance |-> 0, consumedBalance |-> 0]
                       ELSE [initialNonce |-> state.Nonce,
                             initialBalance |-> state.Balance,
                             consumedBalance |-> 0]
         IN [a \in (DOMAIN records) \cup {address} |->
                IF a = address THEN record ELSE records[a]]

\* The requests getAccountRecord(address) makes to the session
\* (selectionSessionWrapper.go 29-34): one for an address without a record.
\* A variant that asks again for an address whose request failed.
getAccountRecordRequests_AsksAgainAfterError(records, session, address) ==
    IF address \in DOMAIN records /\ ~session.accounts[address].err
    THEN << >>
    ELSE <<address>>

getAccountRecordRequests(records, session, address) ==
    IF address \in DOMAIN records THEN << >> ELSE <<address>>

\* Mutant of getNonce: the nonce after the account's one.
getNonce_NextNonce(records, session, address) ==
    getAccountRecord(records, session, address)[address].initialNonce + 1

getNonce(records, session, address) ==
    getAccountRecord(records, session, address)[address].initialNonce

\* A variant that charges the fee to the sender.
accumulateConsumedBalance_ChargesSender(records, session, h) ==
    LET sender == SenderOf(h)
        feePayer == FeePayerOf(h)
        r1 == getAccountRecord(getAccountRecord(records, session, sender), session, feePayer)
        r2 == IF TransferredValueOf(h) # NilAmount
              THEN [r1 EXCEPT ![sender].consumedBalance = @ + TransferredValueOf(h)]
              ELSE r1
    IN IF FeeOf(h) # NilAmount
       THEN [r2 EXCEPT ![sender].consumedBalance = @ + FeeOf(h)]
       ELSE r2

accumulateConsumedBalance(records, session, h) ==
    LET sender == SenderOf(h)
        feePayer == FeePayerOf(h)
        r1 == getAccountRecord(getAccountRecord(records, session, sender), session, feePayer)
        r2 == IF TransferredValueOf(h) # NilAmount
              THEN [r1 EXCEPT ![sender].consumedBalance = @ + TransferredValueOf(h)]
              ELSE r1
    IN IF FeeOf(h) # NilAmount
       THEN [r2 EXCEPT ![feePayer].consumedBalance = @ + FeeOf(h)]
       ELSE r2

\* Mutant of detectWillFeeExceedBalance: the record of the sender is looked at.
detectWillFeeExceedBalance_ChecksSender(records, session, h) ==
    IF FeeOf(h) = NilAmount
    THEN FALSE
    ELSE LET senderRecord == getAccountRecord(records, session, SenderOf(h))[SenderOf(h)]
             futureConsumedBalance == senderRecord.consumedBalance + FeeOf(h)
         IN futureConsumedBalance > senderRecord.initialBalance

\* Mutant of detectWillFeeExceedBalance: what was consumed already is left out.
detectWillFeeExceedBalance_IgnoresConsumed(records, session, h) ==
    IF FeeOf(h) = NilAmount
    THEN FALSE
    ELSE LET feePayerRecord == getAccountRecord(records, session, FeePayerOf(h))[FeePayerOf(h)]
         IN FeeOf(h) > feePayerRecord.initialBalance

detectWillFeeExceedBalance(records, session, h) ==
    IF FeeOf(h) = NilAmount
    THEN FALSE
    ELSE LET feePayerRecord == getAccountRecord(records, session, FeePayerOf(h))[FeePayerOf(h)]
             futureConsumedBalance == feePayerRecord.consumedBalance + FeeOf(h)
         IN futureConsumedBalance > feePayerRecord.initialBalance

\* Mutant of isIncorrectlyGuarded: the session is not asked.
isIncorrectlyGuarded_NeverAsks(session, h) == FALSE

isIncorrectlyGuarded(session, h) == h \in session.guarded

\* -- the selection loop
\* Mutant of IsBetterForSelection: the lowest price per gas unit first.
IsBetterForSelection_LowestPriceFirst(a, b) ==
    IF PricePerUnitOf(a) # PricePerUnitOf(b)
    THEN PricePerUnitOf(a) < PricePerUnitOf(b)
    ELSE IF SenderOf(a) # SenderOf(b)
         THEN SenderOf(a) < SenderOf(b)
         ELSE a < b

\* The heap top: the highest price per gas unit, then the lowest sender, then
\* the lowest hash.
IsBetterForSelection(a, b) ==
    IF PricePerUnitOf(a) # PricePerUnitOf(b)
    THEN PricePerUnitOf(a) > PricePerUnitOf(b)
    ELSE IF SenderOf(a) # SenderOf(b)
         THEN SenderOf(a) < SenderOf(b)
         ELSE a < b

SelectionHeapTop(heap) ==
    CHOOSE item \in heap :
        \A other \in heap \ {item} :
            IsBetterForSelection(CurrentTransaction(item), CurrentTransaction(other))

\* The position of the first transaction with nonce >= nonce, 0 if there is none.
FirstAtOrAbove(list, nonce) ==
    LET positions == {i \in 1..Len(list) : NonceOf(list[i]) >= nonce}
    IN IF positions = {}
       THEN 0
       ELSE CHOOSE i \in positions : \A j \in positions : i <= j

RECURSIVE ConsultSenders(_, _, _)
ConsultSenders(records, session, senders) ==
    IF senders = {}
    THEN records
    ELSE LET s == CHOOSE x \in senders : TRUE
         IN ConsultSenders(getAccountRecord(records, session, s), session, senders \ {s})

\* One cursor per sender, at the first transaction with nonce >= the account
\* nonce; a sender whose lowest nonce is above the account nonce gets none.
SelectionCursors(c, session, records) ==
    {[sender |-> s,
      bunch |-> c.txListBySender[s],
      index |-> FirstAtOrAbove(c.txListBySender[s], getNonce(records, session, s))] :
        s \in {x \in DOMAIN c.txListBySender :
                  /\ c.txListBySender[x] # <<>>
                  /\ NonceOf(c.txListBySender[x][1]) <= getNonce(records, session, x)
                  /\ FirstAtOrAbove(c.txListBySender[x], getNonce(records, session, x)) > 0}}

NumSelectedFrom(transactions, sender) ==
    Cardinality({i \in 1..Len(transactions) : SenderOf(transactions[i]) = sender})

\* Mutant of SelectionLoop: the gas of the next transaction is not counted
\* when the loop decides to go on.
RECURSIVE SelectionLoop_GasCheckedLate(_, _, _, _, _)
SelectionLoop_GasCheckedLate(st, session, gasRequested, maxNum, maxIterations) ==
    IF \/ st.heap = {}
       \/ Len(st.transactions) >= maxNum
       \/ st.iterations >= maxIterations
    THEN st
    ELSE LET item == SelectionHeapTop(st.heap)
             tx == CurrentTransaction(item)
             popped == st.heap \ {item}
             pushedBack == IF HasNextTransaction(item)
                           THEN popped \cup {GotoNextTransaction(item)}
                           ELSE popped
             expected == getNonce(st.records, session, item.sender)
                             + NumSelectedFrom(st.transactions, item.sender)
             feePayerRecord == getAccountRecord(st.records, session, FeePayerOf(tx))[FeePayerOf(tx)]
             entry == [tx |-> tx, outcome |-> "selected",
                       consumed |-> feePayerRecord.consumedBalance,
                       initial |-> feePayerRecord.initialBalance,
                       candidates |-> {CurrentTransaction(other) : other \in popped}]
             next == [st EXCEPT !.iterations = @ + 1]
         IN IF st.accumulatedGas > gasRequested
            THEN st
            ELSE IF NonceOf(tx) # expected
            THEN SelectionLoop_GasCheckedLate(
                     [next EXCEPT !.heap = pushedBack,
                                  !.trace = Append(@, [entry EXCEPT !.outcome = "skipTx"])],
                     session, gasRequested, maxNum, maxIterations)
            ELSE IF isIncorrectlyGuarded(session, tx)
            THEN SelectionLoop_GasCheckedLate(
                     [next EXCEPT !.heap = popped,
                                  !.trace = Append(@, [entry EXCEPT !.outcome = "guarded"])],
                     session, gasRequested, maxNum, maxIterations)
            ELSE IF detectWillFeeExceedBalance(st.records, session, tx)
            THEN SelectionLoop_GasCheckedLate(
                     [next EXCEPT !.heap = popped,
                                  !.records = getAccountRecord(@, session, FeePayerOf(tx)),
                                  !.trace = Append(@, [entry EXCEPT !.outcome = "feeExceeds"])],
                     session, gasRequested, maxNum, maxIterations)
            ELSE SelectionLoop_GasCheckedLate(
                     [next EXCEPT !.heap = pushedBack,
                                  !.records = accumulateConsumedBalance(@, session, tx),
                                  !.transactions = Append(@, tx),
                                  !.accumulatedGas = @ + GasLimitOf(tx),
                                  !.trace = Append(@, entry)],
                     session, gasRequested, maxNum, maxIterations)

\* The loop: until the heap is empty, maxNum is reached, the next transaction
\* does not fit in the gas requested or the time is up (maxIterations stands
\* for the deadline). Each iteration leaves an entry in the trace: the
\* transaction looked at, what was decided, the fee payer's consumed and
\* initial balance at that moment, and the current transactions of the other
\* cursors in the heap.
RECURSIVE SelectionLoop(_, _, _, _, _)
SelectionLoop(st, session, gasRequested, maxNum, maxIterations) ==
    IF \/ st.heap = {}
       \/ Len(st.transactions) >= maxNum
       \/ st.iterations >= maxIterations
    THEN st
    ELSE LET item == SelectionHeapTop(st.heap)
             tx == CurrentTransaction(item)
             popped == st.heap \ {item}
             pushedBack == IF HasNextTransaction(item)
                           THEN popped \cup {GotoNextTransaction(item)}
                           ELSE popped
             expected == getNonce(st.records, session, item.sender)
                             + NumSelectedFrom(st.transactions, item.sender)
             feePayerRecord == getAccountRecord(st.records, session, FeePayerOf(tx))[FeePayerOf(tx)]
             entry == [tx |-> tx, outcome |-> "selected",
                       consumed |-> feePayerRecord.consumedBalance,
                       initial |-> feePayerRecord.initialBalance,
                       candidates |-> {CurrentTransaction(other) : other \in popped}]
             next == [st EXCEPT !.iterations = @ + 1]
         IN IF st.accumulatedGas + GasLimitOf(tx) > gasRequested
            THEN st
            ELSE IF NonceOf(tx) # expected
            THEN SelectionLoop(
                     [next EXCEPT !.heap = pushedBack,
                                  !.trace = Append(@, [entry EXCEPT !.outcome = "skipTx"])],
                     session, gasRequested, maxNum, maxIterations)
            ELSE IF isIncorrectlyGuarded(session, tx)
            THEN SelectionLoop(
                     [next EXCEPT !.heap = popped,
                                  !.trace = Append(@, [entry EXCEPT !.outcome = "guarded"])],
                     session, gasRequested, maxNum, maxIterations)
            ELSE IF detectWillFeeExceedBalance(st.records, session, tx)
            THEN SelectionLoop(
                     [next EXCEPT !.heap = popped,
                                  !.records = getAccountRecord(@, session, FeePayerOf(tx)),
                                  !.trace = Append(@, [entry EXCEPT !.outcome = "feeExceeds"])],
                     session, gasRequested, maxNum, maxIterations)
            ELSE SelectionLoop(
                     [next EXCEPT !.heap = pushedBack,
                                  !.records = accumulateConsumedBalance(@, session, tx),
                                  !.transactions = Append(@, tx),
                                  !.accumulatedGas = @ + GasLimitOf(tx),
                                  !.trace = Append(@, entry)],
                     session, gasRequested, maxNum, maxIterations)

doSelectTransactions(c, session, gasRequested, maxNum, maxIterations) ==
    LET senders == {s \in DOMAIN c.txListBySender : c.txListBySender[s] # <<>>}
        records == ConsultSenders(<<>>, session, senders)
    IN SelectionLoop([heap |-> SelectionCursors(c, session, records),
                      records |-> records,
                      transactions |-> <<>>,
                      accumulatedGas |-> 0,
                      trace |-> <<>>,
                      iterations |-> 0],
                     session, gasRequested, maxNum, maxIterations)

\* The session a selection without the nil check would go on with.
FailingSession ==
    [kind |-> "session",
     accounts |-> [a \in Senders |-> [err |-> TRUE, Nonce |-> 0, Balance |-> 0]],
     guarded |-> {}]

\* Mutant of SelectTransactions: no nil check.
SelectTransactions_NoNilCheck(c, session, gasRequested, maxNum, maxIterations) ==
    LET r == doSelectTransactions(c, IF session.kind = "nil" THEN FailingSession ELSE session,
                                  gasRequested, maxNum, maxIterations)
    IN [cache |-> c, transactions |-> r.transactions, accumulatedGas |-> r.accumulatedGas,
        trace |-> r.trace, consulted |-> TRUE]

\* Mutant of SelectTransactions: what was selected is taken out of txByHash.
SelectTransactions_RemovesSelected(c, session, gasRequested, maxNum, maxIterations) ==
    IF session.kind = "nil"
    THEN [cache |-> c, transactions |-> <<>>, accumulatedGas |-> 0, trace |-> <<>>,
          consulted |-> FALSE]
    ELSE LET r == doSelectTransactions(c, session, gasRequested, maxNum, maxIterations)
         IN [cache |-> RemoveTxsBulk(c, r.transactions),
             transactions |-> r.transactions, accumulatedGas |-> r.accumulatedGas,
             trace |-> r.trace, consulted |-> TRUE]

\* SelectTransactions (txCache.go 102-133): the cache it leaves, what it
\* returns, and whether the cache was consulted.
SelectTransactions(c, session, gasRequested, maxNum, maxIterations) ==
    IF session.kind = "nil"
    THEN [cache |-> c, transactions |-> <<>>, accumulatedGas |-> 0, trace |-> <<>>,
          consulted |-> FALSE]
    ELSE LET r == doSelectTransactions(c, session, gasRequested, maxNum, maxIterations)
         IN [cache |-> c, transactions |-> r.transactions, accumulatedGas |-> r.accumulatedGas,
             trace |-> r.trace, consulted |-> TRUE]

\* ------------------------------------------------------------------- state
\* cache:  the two maps and their counters
\* config: the configuration the cache was built with
\* last:   the last call made, its results and the cache it started from
\* calls:  whether every call so far was an AddTx of a transaction with a hash
\*         and a (sender, nonce) pair not used before, whether every call so
\*         far was an AddTx of a transaction that found the capacity not
\*         exceeded, and the hashes these calls added
\* procs:  per goroutine, where it is in its call (pc), the hash the call is
\*         about, the evicted hashes it still has to remove from txByHash, and
\*         whether its transaction went in and was not removed since
\* mutTxOperation: the goroutine holding the mutex, 0 when it is free
\* live:   the hashes whose AddTx has returned and that no cascade, overflow or
\*         Clear has removed since they went in
\* eviction: the goroutine holding evictionMutex (0 when it is free), the
\*         isEvictionInProgress flag, and the heap of the running eviction
\* selectionSession: the session SelectTransactions is called with (nil, or
\*         what the session answers about accounts and guardians)
\* storm:  goroutines that each add and then remove one transaction: the
\*         transaction, what each goroutine has left to call, and where the
\*         addition made after all of them is
VARIABLES cache, config, last, calls, procs, mutTxOperation, live, eviction, selectionSession,
          storm, sessionWrapper, adapter

vars ==
    <<cache, config, last, calls, procs, mutTxOperation, live, eviction, selectionSession,
      storm, sessionWrapper, adapter>>

Procs == 1..NumProcs

IdleProc ==
    [pc |-> "idle", hash |-> 0, evicted |-> <<>>, alive |-> FALSE, skippedEviction |-> FALSE]

NoEviction == [evictionMutex |-> 0, isEvictionInProgress |-> FALSE, heap |-> {}]

\* newSelectionSessionWrapper (selectionSessionWrapper.go 21-26): no record yet;
\* requests lists the addresses the session was asked for.
NoWrapper == [recordsByAddress |-> << >>, requests |-> << >>]

\* NewStorageCacherAdapter (part_000 46-73): an empty cacher over an empty db,
\* the db open and no value counted as stored. The cacher lists its entries
\* from the most recently used one.
NoAdapter == [cacher |-> << >>, db |-> {}, dbIsClosed |-> FALSE, numValuesInStorage |-> 0]

NoStorm == [tx |-> 0, script |-> [p \in Procs |-> "done"], further |-> "none"]

NoCall ==
    [op |-> "none", w |-> NilWrapper, ok |-> FALSE, added |-> FALSE, removed |-> FALSE,
     evicted |-> <<>>, before |-> EmptyCache, beforeInsertion |-> EmptyCache,
     evictionRan |-> FALSE,
     session |-> NilSession, gasRequested |-> 0, maxNum |-> 0, maxIterations |-> 0,
     transactions |-> <<>>, accumulatedGas |-> 0, trace |-> <<>>, consulted |-> FALSE,
     newConfig |-> [Name |-> ""], host |-> "nil", created |-> FALSE, err |-> "nil",
     address |-> 0, result |-> 0, dbCalls |-> {}, adapterBefore |-> NoAdapter]

Init ==
    /\ cache = EmptyCache
    /\ config \in Configs
    /\ last = NoCall
    /\ calls = [distinctAdds |-> TRUE, withinCapacity |-> TRUE, seen |-> {}]
    /\ procs = [p \in Procs |-> IdleProc]
    /\ mutTxOperation = 0
    /\ live = {}
    /\ eviction = NoEviction
    /\ selectionSession = NilSession
    /\ sessionWrapper = NoWrapper
    /\ adapter = NoAdapter
    /\ storm = NoStorm

IsDistinctAdd(w) ==
    /\ calls.distinctAdds
    /\ w.kind = "tx"
    /\ \A g \in calls.seen :
           /\ g # w.hash
           /\ ~(SenderOf(g) = SenderOf(w.hash) /\ NonceOf(g) = NonceOf(w.hash))

\* The call continues a run of AddTx calls, made since the construction with
\* eviction enabled, each of which found the capacity not exceeded.
IsAddWithinCapacity(w) ==
    /\ calls.withinCapacity
    /\ w.kind = "tx"
    /\ config.EvictionEnabled
    /\ ~isCapacityExceeded(cache, config)

NoRun == [distinctAdds |-> FALSE, withinCapacity |-> FALSE, seen |-> {}]

CallAddTx(w) ==
    LET r == AddTx(cache, w, config)
    IN /\ cache' = r.cache
       /\ last' = [NoCall EXCEPT !.op = "AddTx", !.w = w, !.ok = r.ok, !.added = r.added,
                                 !.evicted = r.evicted, !.before = cache,
                                 !.beforeInsertion = r.beforeInsertion,
                                 !.evictionRan = r.evictionRan]
       /\ calls' = LET distinct == IsDistinctAdd(w)
                        within == IsAddWithinCapacity(w)
                    IN [distinctAdds |-> distinct,
                        withinCapacity |-> within,
                        seen |-> IF distinct \/ within
                                 THEN calls.seen \cup {w.hash}
                                 ELSE {}]
       /\ UNCHANGED <<adapter, sessionWrapper, storm, selectionSession, eviction, config, procs, mutTxOperation, live>>

CallRemoveTxByHash(h) ==
    LET r == RemoveTxByHash(cache, h)
    IN /\ cache' = r.cache
       /\ last' = [NoCall EXCEPT !.op = "RemoveTxByHash", !.w = [kind |-> "tx", hash |-> h],
                                 !.removed = r.removed, !.evicted = r.evicted,
                                 !.before = cache, !.beforeInsertion = cache]
       /\ calls' = NoRun
       /\ UNCHANGED <<adapter, sessionWrapper, storm, selectionSession, eviction, config, procs, mutTxOperation, live>>

CallClear ==
    /\ cache' = Clear(cache)
    /\ last' = [NoCall EXCEPT !.op = "Clear", !.before = cache, !.beforeInsertion = cache]
    /\ calls' = NoRun
    /\ UNCHANGED <<adapter, sessionWrapper, storm, selectionSession, eviction, config, procs, mutTxOperation, live>>

Next ==
    \/ \E w \in Wrappers : CallAddTx(w)
    \/ \E h \in Hashes : CallRemoveTxByHash(h)
    \/ CallClear

Spec == Init /\ [][Next]_vars

\* ------------------------------------------------- the facade, step by step
\* Goroutines call AddTx and RemoveTxByHash concurrently. Every access
\* to one of the two maps is one step; taking the mutex is part of the first
\* step made under it and releasing it part of the last one.
ConcHashes == 1..NumConcTxs

ConcWrappers ==
    {NilWrapper} \cup {[kind |-> "tx", hash |-> h] : h \in ConcHashes}

ConcConfigs ==
    {cfg \in ConfigsWithoutEviction : cfg.NumBytesPerSenderThreshold = NotBinding}

ConcInit ==
    /\ cache = EmptyCache
    /\ config \in ConcConfigs
    /\ last = NoCall
    /\ calls = [distinctAdds |-> TRUE, withinCapacity |-> TRUE, seen |-> {}]
    /\ procs = [p \in Procs |-> IdleProc]
    /\ mutTxOperation = 0
    /\ live = {}
    /\ eviction = NoEviction
    /\ selectionSession = NilSession
    /\ sessionWrapper = NoWrapper
    /\ adapter = NoAdapter
    /\ storm = NoStorm

\* A removal of the hashes `removed` by a cascade or an overflow.
Unalive(ps, removed) ==
    [q \in Procs |-> IF ps[q].hash \in removed /\ ps[q].pc \in {"add_evicted"}
                     THEN [ps[q] EXCEPT !.alive = FALSE]
                     ELSE ps[q]]

\* txCache.go 58-61: the nil check; a nil wrapper returns at once.
AddTx_Begin(p, w) ==
    /\ procs[p].pc = "idle"
    /\ procs' = IF w.kind # "tx"
                THEN procs
                ELSE [procs EXCEPT ![p] = [IdleProc EXCEPT !.pc = "add_byHash", !.hash = w.hash]]
    /\ UNCHANGED <<adapter, sessionWrapper, storm, selectionSession, eviction, cache, config, last, calls, mutTxOperation, live>>

\* txCache.go 71-72: Lock, txByHash.addTx.
AddTx_ByHash(p) ==
    /\ procs[p].pc = "add_byHash"
    /\ mutTxOperation = 0
    /\ mutTxOperation' = p
    /\ cache' = HashAddTx(cache, procs[p].hash)
    /\ procs' = [procs EXCEPT ![p].pc = "add_bySender"]
    /\ UNCHANGED <<adapter, sessionWrapper, storm, selectionSession, eviction, config, last, calls, live>>

\* txCache.go 73-74: txListBySender.addTxReturnEvicted, Unlock.
AddTx_BySender(p) ==
    /\ procs[p].pc = "add_bySender"
    /\ LET r == AddTxReturnEvicted(cache, procs[p].hash, config)
           ps == [procs EXCEPT ![p].pc = "add_evicted",
                               ![p].evicted = r.evicted,
                               ![p].alive = TRUE]
       IN /\ cache' = r.cache
          /\ procs' = Unalive(ps, Range(r.evicted))
          /\ live' = live \ Range(r.evicted)
    /\ mutTxOperation' = 0
    /\ UNCHANGED <<adapter, sessionWrapper, storm, selectionSession, eviction, config, last, calls>>

\* txCache.go 84-87: RemoveTxsBulk(evicted), one hash at a time, not under the mutex.
AddTx_RemoveEvicted(p) ==
    /\ procs[p].pc = "add_evicted"
    /\ procs[p].evicted # <<>>
    /\ cache' = HashRemoveTx(cache, Head(procs[p].evicted))
    /\ procs' = [procs EXCEPT ![p].evicted = Tail(@)]
    /\ UNCHANGED <<adapter, sessionWrapper, storm, selectionSession, eviction, config, last, calls, mutTxOperation, live>>

\* txCache.go 91: AddTx returns.
AddTx_Return(p) ==
    /\ procs[p].pc = "add_evicted"
    /\ procs[p].evicted = <<>>
    /\ live' = IF procs[p].alive THEN live \cup {procs[p].hash} ELSE live
    /\ procs' = [procs EXCEPT ![p] = IdleProc]
    /\ UNCHANGED <<adapter, sessionWrapper, storm, selectionSession, eviction, cache, config, last, calls, mutTxOperation>>

\* txCache.go 141-148: Lock, txByHash.removeTx; a missing hash returns false.
RemoveTxByHash_ByHash(p, h) ==
    /\ procs[p].pc = "idle"
    /\ mutTxOperation = 0
    /\ IF h \notin cache.txByHash
       THEN UNCHANGED <<adapter, sessionWrapper, storm, selectionSession, eviction, cache, procs, mutTxOperation, live>>
       ELSE /\ cache' = HashRemoveTx(cache, h)
            /\ mutTxOperation' = p
            /\ procs' = Unalive([procs EXCEPT ![p] = [IdleProc EXCEPT !.pc = "remove_bySender",
                                                                     !.hash = h]], {h})
            /\ live' = live \ {h}
    /\ UNCHANGED <<adapter, sessionWrapper, storm, selectionSession, eviction, config, last, calls>>

\* txCache.go 150: removeTransactionsWithLowerOrEqualNonceReturnHashes.
RemoveTxByHash_BySender(p) ==
    /\ procs[p].pc = "remove_bySender"
    /\ LET r == RemoveTransactionsWithLowerOrEqualNonceReturnHashes(cache, procs[p].hash)
           ps == [procs EXCEPT ![p].pc = "remove_evicted", ![p].evicted = r.evicted]
       IN /\ cache' = r.cache
          /\ procs' = Unalive(ps, Range(r.evicted))
          /\ live' = live \ Range(r.evicted)
    /\ UNCHANGED <<adapter, sessionWrapper, storm, selectionSession, eviction, config, last, calls, mutTxOperation>>

\* txCache.go 151-153: RemoveTxsBulk(evicted), one hash at a time, under the mutex.
RemoveTxByHash_RemoveEvicted(p) ==
    /\ procs[p].pc = "remove_evicted"
    /\ procs[p].evicted # <<>>
    /\ cache' = HashRemoveTx(cache, Head(procs[p].evicted))
    /\ procs' = [procs EXCEPT ![p].evicted = Tail(@)]
    /\ UNCHANGED <<adapter, sessionWrapper, storm, selectionSession, eviction, config, last, calls, mutTxOperation, live>>

\* txCache.go 156 and the deferred Unlock.
RemoveTxByHash_Return(p) ==
    /\ procs[p].pc = "remove_evicted"
    /\ procs[p].evicted = <<>>
    /\ mutTxOperation' = 0
    /\ procs' = [procs EXCEPT ![p] = IdleProc]
    /\ UNCHANGED <<adapter, sessionWrapper, storm, selectionSession, eviction, cache, config, last, calls, live>>

ConcNext ==
    \E p \in Procs :
        \/ \E w \in ConcWrappers : AddTx_Begin(p, w)
        \/ AddTx_ByHash(p)
        \/ AddTx_BySender(p)
        \/ AddTx_RemoveEvicted(p)
        \/ AddTx_Return(p)
        \/ \E h \in ConcHashes : RemoveTxByHash_ByHash(p, h)
        \/ RemoveTxByHash_BySender(p)
        \/ RemoveTxByHash_RemoveEvicted(p)
        \/ RemoveTxByHash_Return(p)

ConcSpec == ConcInit /\ [][ConcNext]_vars

\* ------------------------------------------- AddTx with eviction, step by step
\* Goroutines call AddTx concurrently with eviction enabled. doEviction is one
\* step per access to the flag, to the mutex or to the counters, and one step
\* per pass of the eviction loop; the insertion follows as above.
EvictHashes == 1..NumEvictTxs

\* Eviction with no limit per sender, and with a limit of one transaction
\* per sender, which the second transaction of a sender exceeds.
EvictConfigs ==
    {cfg \in ConfigsWithEviction : cfg.CountPerSenderThreshold = NotBinding}
        \cup {[cfg EXCEPT !.CountPerSenderThreshold = 1] :
                 cfg \in {x \in ConfigsWithEviction :
                             /\ x.CountPerSenderThreshold = NotBinding
                             /\ x.NumItemsToPreemptivelyEvict = 1}}

EvictInit ==
    /\ cache = EmptyCache
    /\ config \in EvictConfigs
    /\ last = NoCall
    /\ calls = NoRun
    /\ procs = [p \in Procs |-> IdleProc]
    /\ mutTxOperation = 0
    /\ live = {}
    /\ eviction = NoEviction
    /\ selectionSession = NilSession
    /\ sessionWrapper = NoWrapper
    /\ adapter = NoAdapter
    /\ storm = NoStorm

\* Where a goroutine is inside doEviction, and inside the eviction body.
DoEvictionPcs ==
    {"evict_checkCapacity", "evict_lock", "evict_setFlag", "evict_recheck",
     "evict_snapshot", "evict_pass", "evict_resetFlag", "evict_unlock"}

EvictionBodyPcs == {"evict_snapshot", "evict_pass"}

\* Mutant of doEviction_Begin: the flag is not looked at.
doEviction_Begin_IgnoresFlag(p, h) ==
    /\ procs[p].pc = "idle"
    /\ procs' = [procs EXCEPT ![p] =
                    [IdleProc EXCEPT !.pc = "evict_checkCapacity", !.hash = h,
                                     !.skippedEviction = eviction.isEvictionInProgress]]
    /\ UNCHANGED <<adapter, sessionWrapper, storm, selectionSession, cache, config, last, calls, mutTxOperation, live, eviction>>

\* txCache.go 58-69 and eviction.go 19-21: the nil check, then doEviction
\* reads the flag and returns nil when an eviction is in progress.
doEviction_Begin(p, h) ==
    /\ procs[p].pc = "idle"
    /\ procs' = [procs EXCEPT ![p] =
                    IF eviction.isEvictionInProgress
                    THEN [IdleProc EXCEPT !.pc = "add_byHash", !.hash = h,
                                          !.skippedEviction = TRUE]
                    ELSE [IdleProc EXCEPT !.pc = "evict_checkCapacity", !.hash = h]]
    /\ UNCHANGED <<adapter, sessionWrapper, storm, selectionSession, cache, config, last, calls, mutTxOperation, live, eviction>>

\* eviction.go 23-25: nothing to do when the capacity is not exceeded.
doEviction_CheckCapacity(p) ==
    /\ procs[p].pc = "evict_checkCapacity"
    /\ procs' = [procs EXCEPT ![p].pc =
                    IF isCapacityExceeded(cache, config) THEN "evict_lock" ELSE "add_byHash"]
    /\ UNCHANGED <<adapter, sessionWrapper, storm, selectionSession, cache, config, last, calls, mutTxOperation, live, eviction>>

\* Mutant of doEviction_Lock: the mutex is taken without waiting for it.
doEviction_Lock_NoWait(p) ==
    /\ procs[p].pc = "evict_lock"
    /\ eviction' = [eviction EXCEPT !.evictionMutex = p]
    /\ procs' = [procs EXCEPT ![p].pc = "evict_setFlag"]
    /\ UNCHANGED <<adapter, sessionWrapper, storm, selectionSession, cache, config, last, calls, mutTxOperation, live>>

\* eviction.go 27: evictionMutex.Lock().
doEviction_Lock(p) ==
    /\ procs[p].pc = "evict_lock"
    /\ eviction.evictionMutex = 0
    /\ eviction' = [eviction EXCEPT !.evictionMutex = p]
    /\ procs' = [procs EXCEPT ![p].pc = "evict_setFlag"]
    /\ UNCHANGED <<adapter, sessionWrapper, storm, selectionSession, cache, config, last, calls, mutTxOperation, live>>

\* eviction.go 30: isEvictionInProgress.SetReturningPrevious().
doEviction_SetFlag(p) ==
    /\ procs[p].pc = "evict_setFlag"
    /\ eviction' = [eviction EXCEPT !.isEvictionInProgress = TRUE]
    /\ procs' = [procs EXCEPT ![p].pc = "evict_recheck"]
    /\ UNCHANGED <<adapter, sessionWrapper, storm, selectionSession, cache, config, last, calls, mutTxOperation, live>>

\* eviction.go 33-35: the capacity is checked again under the mutex.
doEviction_Recheck(p) ==
    /\ procs[p].pc = "evict_recheck"
    /\ procs' = [procs EXCEPT ![p].pc =
                    IF isCapacityExceeded(cache, config)
                    THEN "evict_snapshot"
                    ELSE "evict_resetFlag"]
    /\ UNCHANGED <<adapter, sessionWrapper, storm, selectionSession, cache, config, last, calls, mutTxOperation, live, eviction>>

\* eviction.go 87-113: the snapshot of the senders and the heap over it.
evictLeastLikelyToSelectTransactions_Snapshot(p) ==
    /\ procs[p].pc = "evict_snapshot"
    /\ eviction' = [eviction EXCEPT !.heap = InitialHeap(cache)]
    /\ procs' = [procs EXCEPT ![p].pc = "evict_pass"]
    /\ UNCHANGED <<adapter, sessionWrapper, storm, selectionSession, cache, config, last, calls, mutTxOperation, live>>

\* Mutant of evictLeastLikelyToSelectTransactions_Pass: the loop does not end
\* when a pass collects nothing.
evictLeastLikelyToSelectTransactions_Pass_NoBreak(p) ==
    /\ procs[p].pc = "evict_pass"
    /\ \E sel \in {SelectTransactionsToEvict(eviction.heap, <<>>, config)} :
       \E c1 \in {EvictCollected(cache, sel.transactionsToEvict)} :
       \E gone \in {{h \in Hashes : /\ h \in Range(ListOf(cache, SenderOf(h)))
                                   /\ h \notin Range(ListOf(c1, SenderOf(h)))}
                       \cup Range(sel.transactionsToEvict)} :
          IF ~isCapacityExceeded(cache, config)
          THEN /\ procs' = [procs EXCEPT ![p].pc = "evict_resetFlag"]
               /\ UNCHANGED <<cache, live, eviction>>
          ELSE /\ cache' = c1
               /\ eviction' = [eviction EXCEPT !.heap = sel.heap]
               /\ procs' = Unalive(procs, gone)
               /\ live' = live \ gone
    /\ UNCHANGED <<adapter, sessionWrapper, storm, selectionSession, config, last, calls, mutTxOperation>>

\* eviction.go 115-166: one pass of the loop, or its end.
evictLeastLikelyToSelectTransactions_Pass(p) ==
    /\ procs[p].pc = "evict_pass"
    /\ \E sel \in {SelectTransactionsToEvict(eviction.heap, <<>>, config)} :
       \E c1 \in {EvictCollected(cache, sel.transactionsToEvict)} :
       \E gone \in {{h \in Hashes : /\ h \in Range(ListOf(cache, SenderOf(h)))
                                   /\ h \notin Range(ListOf(c1, SenderOf(h)))}
                       \cup Range(sel.transactionsToEvict)} :
          IF ~isCapacityExceeded(cache, config) \/ Len(sel.transactionsToEvict) = 0
          THEN /\ procs' = [procs EXCEPT ![p].pc = "evict_resetFlag"]
               /\ eviction' = IF isCapacityExceeded(cache, config)
                               THEN [eviction EXCEPT !.heap = sel.heap]
                               ELSE eviction
               /\ UNCHANGED <<cache, live>>
          ELSE /\ cache' = c1
               /\ eviction' = [eviction EXCEPT !.heap = sel.heap]
               /\ procs' = Unalive(procs, gone)
               /\ live' = live \ gone
    /\ UNCHANGED <<adapter, sessionWrapper, storm, selectionSession, config, last, calls, mutTxOperation>>

\* eviction.go 31: the deferred isEvictionInProgress.Reset().
doEviction_ResetFlag(p) ==
    /\ procs[p].pc = "evict_resetFlag"
    /\ eviction' = [eviction EXCEPT !.isEvictionInProgress = FALSE, !.heap = {}]
    /\ procs' = [procs EXCEPT ![p].pc = "evict_unlock"]
    /\ UNCHANGED <<adapter, sessionWrapper, storm, selectionSession, cache, config, last, calls, mutTxOperation, live>>

\* eviction.go 28: the deferred evictionMutex.Unlock(); AddTx goes on to the insertion.
doEviction_Unlock(p) ==
    /\ procs[p].pc = "evict_unlock"
    /\ eviction' = [eviction EXCEPT !.evictionMutex = 0]
    /\ procs' = [procs EXCEPT ![p].pc = "add_byHash"]
    /\ UNCHANGED <<adapter, sessionWrapper, storm, selectionSession, cache, config, last, calls, mutTxOperation, live>>

\* The steps of doEviction of one goroutine.
doEviction_Step(p) ==
    \/ doEviction_CheckCapacity(p)
    \/ doEviction_Lock(p)
    \/ doEviction_SetFlag(p)
    \/ doEviction_Recheck(p)
    \/ evictLeastLikelyToSelectTransactions_Snapshot(p)
    \/ evictLeastLikelyToSelectTransactions_Pass(p)
    \/ doEviction_ResetFlag(p)
    \/ doEviction_Unlock(p)

EvictNext ==
    \E p \in Procs :
        \/ \E h \in EvictHashes : doEviction_Begin(p, h)
        \/ doEviction_Step(p)
        \/ AddTx_ByHash(p)
        \/ AddTx_BySender(p)
        \/ AddTx_RemoveEvicted(p)
        \/ AddTx_Return(p)

EvictSpec == EvictInit /\ [][EvictNext]_vars

\* The scheduler runs every goroutine that can take a step, and a goroutine
\* waiting for evictionMutex gets it eventually (sync.Mutex hands the mutex to
\* a starving waiter).
EvictFairSpec ==
    /\ EvictSpec
    /\ \A p \in Procs :
           /\ WF_vars(doEviction_Step(p))
           /\ SF_vars(doEviction_Lock(p))

\* ------------------------------------------------- selection, call by call
\* AddTx calls fill a cache without eviction and without per-sender limits;
\* SelectTransactions is called on it with the session at hand, any of
\* Sessions or nil, and every request.
SelConfigs ==
    {cfg \in ConfigsWithoutEviction :
        /\ cfg.NumBytesPerSenderThreshold = NotBinding
        /\ cfg.CountPerSenderThreshold = NotBinding}

SelInit ==
    /\ cache = EmptyCache
    /\ config \in SelConfigs
    /\ last = NoCall
    /\ calls = NoRun
    /\ procs = [p \in Procs |-> IdleProc]
    /\ mutTxOperation = 0
    /\ live = {}
    /\ eviction = NoEviction
    /\ selectionSession \in Sessions \cup {NilSession}
    /\ sessionWrapper = NoWrapper
    /\ adapter = NoAdapter
    /\ storm = NoStorm

CallSelectTransactions(gasRequested, maxNum, maxIterations) ==
    LET session == selectionSession
        r == SelectTransactions(cache, session, gasRequested, maxNum, maxIterations)
    IN /\ cache' = r.cache
       /\ last' = [NoCall EXCEPT !.op = "SelectTransactions",
                                 !.before = cache, !.beforeInsertion = cache,
                                 !.session = session, !.gasRequested = gasRequested,
                                 !.maxNum = maxNum, !.maxIterations = maxIterations,
                                 !.transactions = r.transactions,
                                 !.accumulatedGas = r.accumulatedGas,
                                 !.trace = r.trace, !.consulted = r.consulted]
       /\ calls' = NoRun
       /\ UNCHANGED <<adapter, sessionWrapper, storm, selectionSession, eviction, config, procs, mutTxOperation, live>>

\* The requests: no limit reached, one limit that binds, all of them.
SelectionRequests ==
    {[gasRequested |-> NotBinding, maxNum |-> NotBinding, maxIterations |-> NotBinding],
     [gasRequested |-> SmallGas, maxNum |-> NotBinding, maxIterations |-> NotBinding],
     [gasRequested |-> NotBinding, maxNum |-> SmallMaxNum, maxIterations |-> NotBinding],
     [gasRequested |-> NotBinding, maxNum |-> NotBinding, maxIterations |-> SmallIterations],
     [gasRequested |-> SmallGas, maxNum |-> SmallMaxNum, maxIterations |-> SmallIterations]}

SelNext ==
    \/ \E h \in SelHashes : CallAddTx([kind |-> "tx", hash |-> h])
    \/ \E request \in SelectionRequests :
           CallSelectTransactions(request.gasRequested, request.maxNum,
                                  request.maxIterations)

SelSpec == SelInit /\ [][SelNext]_vars

\* ------------------------------------- additions and removals of one transaction
\* Every goroutine calls AddTx(tx) and then RemoveTxByHash(tx.TxHash) for the
\* same transaction; when all have returned, AddTx(tx) is called once more.
\* Eviction is disabled and no limit binds, so no AddTx has evicted hashes to
\* remove (txCache.go 84-87 is skipped).
StormInit ==
    /\ cache = EmptyCache
    /\ config \in SelConfigs
    /\ last = NoCall
    /\ calls = NoRun
    /\ procs = [p \in Procs |-> IdleProc]
    /\ mutTxOperation = 0
    /\ live = {}
    /\ eviction = NoEviction
    /\ selectionSession = NilSession
    /\ sessionWrapper = NoWrapper
    /\ adapter = NoAdapter
    /\ \E h \in ConcHashes :
          storm = [tx |-> h, script |-> [p \in Procs |-> "AddTx"], further |-> "waiting"]

Storm_AddTx_Begin(p) ==
    /\ storm.script[p] = "AddTx"
    /\ procs[p].pc = "idle"
    /\ procs' = [procs EXCEPT ![p] = [IdleProc EXCEPT !.pc = "add_byHash", !.hash = storm.tx]]
    /\ storm' = [storm EXCEPT !.script[p] = "RemoveTxByHash"]
    /\ UNCHANGED <<adapter, sessionWrapper, selectionSession, eviction, cache, config, last, calls, mutTxOperation, live>>

\* Mutant of Storm_RemoveTxByHash_ByHash: the hash is never found.
Storm_RemoveTxByHash_ByHash_NeverFinds(p) ==
    /\ storm.script[p] = "RemoveTxByHash"
    /\ procs[p].pc = "idle"
    /\ mutTxOperation = 0
    /\ storm' = [storm EXCEPT !.script[p] = "done"]
    /\ UNCHANGED <<adapter, sessionWrapper, selectionSession, eviction, cache, procs, mutTxOperation, live, config, last,
                   calls>>

\* txCache.go 141-148: Lock, txByHash.removeTx; a missing hash returns false.
Storm_RemoveTxByHash_ByHash(p) ==
    /\ storm.script[p] = "RemoveTxByHash"
    /\ procs[p].pc = "idle"
    /\ mutTxOperation = 0
    /\ IF storm.tx \notin cache.txByHash
       THEN UNCHANGED <<cache, procs, mutTxOperation, live>>
       ELSE /\ cache' = HashRemoveTx(cache, storm.tx)
            /\ mutTxOperation' = p
            /\ procs' = Unalive([procs EXCEPT ![p] = [IdleProc EXCEPT !.pc = "remove_bySender",
                                                                     !.hash = storm.tx]],
                                {storm.tx})
            /\ live' = live \ {storm.tx}
    /\ storm' = [storm EXCEPT !.script[p] = "done"]
    /\ UNCHANGED <<adapter, sessionWrapper, selectionSession, eviction, config, last, calls>>

StormQuiescent ==
    /\ \A p \in Procs : storm.script[p] = "done" /\ procs[p].pc = "idle"
    /\ storm.tx # 0

\* The addition made after all goroutines have finished.
Storm_FurtherAddTx_Begin ==
    /\ StormQuiescent
    /\ storm.further = "waiting"
    /\ \E p \in {1} :
          procs' = [procs EXCEPT ![p] = [IdleProc EXCEPT !.pc = "add_byHash", !.hash = storm.tx]]
    /\ storm' = [storm EXCEPT !.further = "called"]
    /\ UNCHANGED <<adapter, sessionWrapper, selectionSession, eviction, cache, config, last, calls, mutTxOperation, live>>

StormNext ==
    \/ Storm_FurtherAddTx_Begin
    \/ \E p \in Procs :
          \/ Storm_AddTx_Begin(p)
          \/ AddTx_ByHash(p)
          \/ AddTx_BySender(p)
          \/ AddTx_Return(p)
          \/ Storm_RemoveTxByHash_ByHash(p)
          \/ RemoveTxByHash_BySender(p)
          \/ RemoveTxByHash_RemoveEvicted(p)
          \/ RemoveTxByHash_Return(p)

StormSpec == StormInit /\ [][StormNext]_vars

\* ------------------------------------------------ calls on maps that disagree
\* The two maps can come to disagree (an eviction that collected one of two
\* transactions with the same nonce, a bulk removal that ran late). Such states
\* are set up as the tests do, by an insertion into one map only; AddTx and
\* RemoveTxByHash are then called on them. Eviction is disabled; the limits
\* per sender bind or not.
RecoverInit ==
    /\ cache = EmptyCache
    /\ config \in ConfigsWithoutEviction
    /\ last = NoCall
    /\ calls = NoRun
    /\ procs = [p \in Procs |-> IdleProc]
    /\ mutTxOperation = 0
    /\ live = {}
    /\ eviction = NoEviction
    /\ selectionSession = NilSession
    /\ sessionWrapper = NoWrapper
    /\ adapter = NoAdapter
    /\ storm = NoStorm

txByHash_addTx(h) ==
    /\ cache' = HashAddTx(cache, h)
    /\ last' = [NoCall EXCEPT !.op = "txByHash.addTx", !.before = cache,
                              !.beforeInsertion = cache]
    /\ calls' = NoRun
    /\ UNCHANGED <<adapter, sessionWrapper, storm, selectionSession, eviction, config, procs, mutTxOperation, live>>

txListBySender_addTxReturnEvicted(h) ==
    /\ cache' = AddTxReturnEvicted(cache, h, config).cache
    /\ last' = [NoCall EXCEPT !.op = "txListBySender.addTxReturnEvicted", !.before = cache,
                              !.beforeInsertion = cache]
    /\ calls' = NoRun
    /\ UNCHANGED <<adapter, sessionWrapper, storm, selectionSession, eviction, config, procs, mutTxOperation, live>>

RecoverNext ==
    \/ \E h \in ConcHashes : txByHash_addTx(h)
    \/ \E h \in ConcHashes : txListBySender_addTxReturnEvicted(h)
    \/ \E h \in ConcHashes : CallAddTx([kind |-> "tx", hash |-> h])
    \/ \E h \in ConcHashes : CallRemoveTxByHash(h)

RecoverSpec == RecoverInit /\ [][RecoverNext]_vars

\* ------------------------------------------------- construction, call by call
\* NewTxCache is called with every configuration and host; a cache that is
\* returned is empty.
NewInit ==
    /\ cache = EmptyCache
    /\ config \in SelConfigs
    /\ last = NoCall
    /\ calls = NoRun
    /\ procs = [p \in Procs |-> IdleProc]
    /\ mutTxOperation = 0
    /\ live = {}
    /\ eviction = NoEviction
    /\ selectionSession = NilSession
    /\ sessionWrapper = NoWrapper
    /\ adapter = NoAdapter
    /\ storm = NoStorm

CallNewTxCache(cfg, host) ==
    LET r == NewTxCache(cfg, host)
    IN /\ last' = [NoCall EXCEPT !.op = "NewTxCache", !.newConfig = cfg, !.host = host,
                                 !.created = r.created, !.err = r.err]
       /\ cache' = EmptyCache
       /\ UNCHANGED <<adapter, sessionWrapper, storm, selectionSession, eviction, config, calls, procs, mutTxOperation, live>>

NewNext == \E cfg \in ConstructorConfigs, host \in Hosts : CallNewTxCache(cfg, host)

NewSpec == NewInit /\ [][NewNext]_vars

\* ------------------------------------------ the session wrapper, call by call
\* One wrapper, as made for one selection, and its three methods called in any
\* order on any address and transaction. The session is drawn at the start.
WrapHashes == 1..(NumSelTxs + 1)

WrapSessions == {session \in Sessions : session.guarded = {}}

WrapInit ==
    /\ cache = EmptyCache
    /\ config \in SelConfigs
    /\ last = NoCall
    /\ calls = NoRun
    /\ procs = [p \in Procs |-> IdleProc]
    /\ mutTxOperation = 0
    /\ live = {}
    /\ eviction = NoEviction
    /\ selectionSession \in WrapSessions
    /\ storm = NoStorm
    /\ sessionWrapper = NoWrapper
    /\ adapter = NoAdapter

\* getNonce(address) (selectionSessionWrapper.go 55-57).
Call_getNonce(address) ==
    LET records == sessionWrapper.recordsByAddress
    IN /\ sessionWrapper' =
              [recordsByAddress |-> getAccountRecord(records, selectionSession, address),
               requests |-> sessionWrapper.requests
                                \o getAccountRecordRequests(records, selectionSession, address)]
       /\ last' = [NoCall EXCEPT !.op = "getNonce", !.address = address,
                                 !.result = getNonce(records, selectionSession, address)]
       /\ UNCHANGED <<adapter, storm, selectionSession, eviction, cache, config, calls, procs,
                      mutTxOperation, live>>

\* detectWillFeeExceedBalance(tx) (selectionSessionWrapper.go 77-101): a
\* transaction without a fee is answered before any record is looked up.
Call_detectWillFeeExceedBalance(h) ==
    LET records == sessionWrapper.recordsByAddress
        asked == FeeOf(h) # NilAmount
    IN /\ sessionWrapper' =
              IF asked
              THEN [recordsByAddress |->
                        getAccountRecord(records, selectionSession, FeePayerOf(h)),
                    requests |->
                        sessionWrapper.requests
                            \o getAccountRecordRequests(records, selectionSession, FeePayerOf(h))]
              ELSE sessionWrapper
       /\ last' = [NoCall EXCEPT !.op = "detectWillFeeExceedBalance",
                                 !.w = [kind |-> "tx", hash |-> h],
                                 !.ok = detectWillFeeExceedBalance(records, selectionSession, h)]
       /\ UNCHANGED <<adapter, storm, selectionSession, eviction, cache, config, calls, procs,
                      mutTxOperation, live>>

\* accumulateConsumedBalance(tx) (selectionSessionWrapper.go 59-75): the record
\* of the sender, then the one of the fee payer. MaxConsumed bounds the sums.
Call_accumulateConsumedBalance(h) ==
    LET records == sessionWrapper.recordsByAddress
        withSender == getAccountRecord(records, selectionSession, SenderOf(h))
    IN /\ \A a \in DOMAIN records : records[a].consumedBalance < MaxConsumed
       /\ sessionWrapper' =
              [recordsByAddress |-> accumulateConsumedBalance(records, selectionSession, h),
               requests |->
                   sessionWrapper.requests
                       \o getAccountRecordRequests(records, selectionSession, SenderOf(h))
                       \o getAccountRecordRequests(withSender, selectionSession, FeePayerOf(h))]
       /\ last' = [NoCall EXCEPT !.op = "accumulateConsumedBalance",
                                 !.w = [kind |-> "tx", hash |-> h]]
       /\ UNCHANGED <<adapter, storm, selectionSession, eviction, cache, config, calls, procs,
                      mutTxOperation, live>>

WrapNext ==
    \/ \E address \in Senders : Call_getNonce(address)
    \/ \E h \in WrapHashes : Call_detectWillFeeExceedBalance(h)
    \/ \E h \in WrapHashes : Call_accumulateConsumedBalance(h)

WrapSpec == WrapInit /\ [][WrapNext]_vars

\* ---------------------------------------------- the storage cacher adapter
\* storageCacherAdapter (part_000 19-304): a size-bounded LRU cacher in front
\* of a persister. What the cacher evicts on Put is written to the db.
AdapterKeys == 1..NumAdapterKeys

\* A value either serializes to bytes or to nothing (getBytes, part_000 118-132).
AdapterValues == BOOLEAN

CacherKeys(cacher) == {cacher[i].key : i \in 1..Len(cacher)}

CacherWithout(cacher, key) == SelectSeq(cacher, LAMBDA entry : entry.key # key)

\* cacher.AddSizedAndReturnEvicted: the entry becomes the most recently used
\* one; beyond the capacity the least recently used entry is evicted.
AddSizedAndReturnEvicted(cacher, key, value) ==
    LET added == <<[key |-> key, value |-> value]>> \o CacherWithout(cacher, key)
    IN IF Len(added) > CacherCapacity
       THEN [cacher |-> SubSeq(added, 1, CacherCapacity),
             evicted |-> {added[i] : i \in (CacherCapacity + 1)..Len(added)}]
       ELSE [cacher |-> added, evicted |-> {}]

\* Put (part_000 84-116). Each operation returns the adapter it leaves, its
\* result and the calls it made to the db.
AdapterPut(a, key, value) ==
    LET r == AddSizedAndReturnEvicted(a.cacher, key, value)
        written == {e \in r.evicted : e.value}
    IN IF a.dbIsClosed
       THEN [adapter |-> [a EXCEPT !.cacher = r.cacher],
             result |-> r.evicted # {},
             dbCalls |-> {}]
       ELSE [adapter |-> [a EXCEPT !.cacher = r.cacher,
                                   !.db = @ \cup {e.key : e \in written},
                                   !.numValuesInStorage = @ + Cardinality(written)],
             result |-> r.evicted # {},
             dbCalls |-> {[op |-> "Put", key |-> e.key] : e \in written}]

\* Get (part_000 134-159): the cacher first, where a hit makes the entry the
\* most recently used one.
AdapterGet(a, key) ==
    IF key \in CacherKeys(a.cacher)
    THEN [adapter |-> [a EXCEPT !.cacher =
                           SelectSeq(a.cacher, LAMBDA entry : entry.key = key)
                               \o CacherWithout(a.cacher, key)],
          result |-> TRUE, dbCalls |-> {}]
    ELSE IF a.dbIsClosed
    THEN [adapter |-> a, result |-> FALSE, dbCalls |-> {}]
    ELSE [adapter |-> a, result |-> key \in a.db,
          dbCalls |-> {[op |-> "Get", key |-> key]}]

\* Has (part_000 178-193).
AdapterHas(a, key) ==
    IF key \in CacherKeys(a.cacher)
    THEN [adapter |-> a, result |-> TRUE, dbCalls |-> {}]
    ELSE IF a.dbIsClosed
    THEN [adapter |-> a, result |-> FALSE, dbCalls |-> {}]
    ELSE [adapter |-> a, result |-> key \in a.db,
          dbCalls |-> {[op |-> "Has", key |-> key]}]

\* A variant of Remove that goes to the db whether it is closed or not.
AdapterRemove_IgnoresClosed(a, key) ==
    LET removed == key \in CacherKeys(a.cacher)
        a1 == [a EXCEPT !.cacher = CacherWithout(a.cacher, key)]
    IN IF removed
       THEN [adapter |-> a1, result |-> TRUE, dbCalls |-> {}]
       ELSE [adapter |-> [a1 EXCEPT !.db = @ \ {key}, !.numValuesInStorage = @ - 1],
             result |-> FALSE,
             dbCalls |-> {[op |-> "Remove", key |-> key]}]

\* Remove (part_000 216-229). db.Remove (cacheItem.go 291-297) deletes the key
\* in its batch and reports no error, whether the key was stored or not.
AdapterRemove(a, key) ==
    LET removed == key \in CacherKeys(a.cacher)
        a1 == [a EXCEPT !.cacher = CacherWithout(a.cacher, key)]
    IN IF removed \/ a.dbIsClosed
       THEN [adapter |-> a1, result |-> removed, dbCalls |-> {}]
       ELSE [adapter |-> [a1 EXCEPT !.db = @ \ {key}, !.numValuesInStorage = @ - 1],
             result |-> FALSE,
             dbCalls |-> {[op |-> "Remove", key |-> key]}]

\* Keys (part_000 232-258): the keys of the cacher, then those of the db.
AdapterKeysOf(a) ==
    IF a.dbIsClosed
    THEN [adapter |-> a, result |-> CacherKeys(a.cacher), dbCalls |-> {}]
    ELSE [adapter |-> a, result |-> CacherKeys(a.cacher) \cup a.db,
          dbCalls |-> {[op |-> "RangeKeys", key |-> 0]}]

\* Len (part_000 261-267).
AdapterLen(a) == Len(a.cacher) + a.numValuesInStorage

\* Clear (part_000 76-81).
AdapterClear(a) ==
    [adapter |-> [a EXCEPT !.cacher = << >>], result |-> TRUE, dbCalls |-> {}]

\* Close (part_000 291-298).
AdapterClose(a) ==
    [adapter |-> [a EXCEPT !.dbIsClosed = TRUE, !.numValuesInStorage = 0],
     result |-> TRUE,
     dbCalls |-> {[op |-> "Close", key |-> 0]}]

\* -- the adapter, call by call
AdapterInit ==
    /\ cache = EmptyCache
    /\ config \in SelConfigs
    /\ last = NoCall
    /\ calls = NoRun
    /\ procs = [p \in Procs |-> IdleProc]
    /\ mutTxOperation = 0
    /\ live = {}
    /\ eviction = NoEviction
    /\ selectionSession = NilSession
    /\ storm = NoStorm
    /\ sessionWrapper = NoWrapper
    /\ adapter = NoAdapter

\* What every call leaves: the adapter, and the record of the call with the
\* adapter it found.
AdapterCalled(op, key, r) ==
    /\ adapter' = r.adapter
    /\ last' = [NoCall EXCEPT !.op = op, !.address = key, !.result = r.result,
                              !.dbCalls = r.dbCalls, !.adapterBefore = adapter]
    /\ UNCHANGED <<sessionWrapper, storm, selectionSession, eviction, cache, config, calls,
                   procs, mutTxOperation, live>>

\* MaxStored bounds the counter in both directions.
CallAdapterPut(key, value) ==
    /\ adapter.numValuesInStorage < MaxStored
    /\ AdapterCalled("Put", key, AdapterPut(adapter, key, value))

CallAdapterGet(key) == AdapterCalled("Get", key, AdapterGet(adapter, key))

CallAdapterHas(key) == AdapterCalled("Has", key, AdapterHas(adapter, key))

CallAdapterRemove(key) ==
    /\ adapter.numValuesInStorage > -MaxStored
    /\ AdapterCalled("Remove", key, AdapterRemove(adapter, key))

CallAdapterKeys == AdapterCalled("Keys", 0, AdapterKeysOf(adapter))

CallAdapterClear == AdapterCalled("Clear", 0, AdapterClear(adapter))

CallAdapterClose == AdapterCalled("Close", 0, AdapterClose(adapter))

AdapterNext ==
    \/ \E key \in AdapterKeys : \E value \in AdapterValues : CallAdapterPut(key, value)
    \/ \E key \in AdapterKeys : CallAdapterGet(key)
    \/ \E key \in AdapterKeys : CallAdapterHas(key)
    \/ \E key \in AdapterKeys : CallAdapterRemove(key)
    \/ CallAdapterKeys
    \/ CallAdapterClear
    \/ CallAdapterClose

AdapterSpec == AdapterInit /\ [][AdapterNext]_vars

\* ------------------------------------------------------- claims: vocabulary
RECURSIVE SumOfListLengths(_, _)
SumOfListLengths(c, senders) ==
    IF senders = {}
    THEN 0
    ELSE LET s == CHOOSE x \in senders : TRUE
         IN Len(c.txListBySender[s]) + SumOfListLengths(c, senders \ {s})

\* The places (sender, position) of the per-sender lists that hold hash h.
PlacesOf(c, h) ==
    {p \in UNION {{<<s, i>> : i \in 1..Len(c.txListBySender[s])} : s \in DOMAIN c.txListBySender} :
        c.txListBySender[p[1]][p[2]] = h}

InSenderList(c, h) == h \in Range(ListOf(c, SenderOf(h)))

IsSorted(list) == \A i, j \in 1..Len(list) : i < j => Precedes(list[i], list[j])

WithinSenderLimits(list, cfg) ==
    /\ Len(list) <= cfg.CountPerSenderThreshold
    /\ SumSizes(list) <= cfg.NumBytesPerSenderThreshold

LimitsNotBinding(cfg) ==
    /\ cfg.NumBytesThreshold >= NumTxs * MaxSize
    /\ cfg.NumBytesPerSenderThreshold >= NumTxs * MaxSize
    /\ cfg.CountPerSenderThreshold >= NumTxs

LastAddedTx == last.op = "AddTx" /\ last.w.kind = "tx"

\* C1: with global eviction disabled, after every call a hash is a key of
\* txByHash exactly when its transaction is in exactly one per-sender list, and
\* CountTx is the sum of the lengths of the per-sender lists.
C1_MapsAgreeAfterEachCall ==
    ~config.EvictionEnabled =>
        /\ \A h \in Hashes :
               (h \in cache.txByHash) <=> (Cardinality(PlacesOf(cache, h)) = 1)
        /\ CountTx(cache) = SumOfListLengths(cache, DOMAIN cache.txListBySender)

C1_Witness ==
    /\ ~config.EvictionEnabled
    /\ LastAddedTx
    /\ Len(last.evicted) > 0
    /\ CountTx(cache) >= 3

\* C3 (as claimed): RemoveTxByHash(h) of a hash in the cache returns true and
\* removes from both maps every transaction of the sender with nonce <= the
\* nonce of h; every other transaction stays where it was in both maps.
C3_RemoveCascadesLowerNonces ==
    (last.op = "RemoveTxByHash" /\ last.w.hash \in last.before.txByHash) =>
        LET h == last.w.hash
            s == SenderOf(h)
            k == NonceOf(h)
        IN /\ last.removed
           /\ \A g \in Hashes :
                  IF SenderOf(g) = s /\ NonceOf(g) <= k
                  THEN g \notin cache.txByHash /\ ~InSenderList(cache, g)
                  ELSE /\ (g \in cache.txByHash) <=> (g \in last.before.txByHash)
                       /\ InSenderList(cache, g) <=> InSenderList(last.before, g)

\* C4: after every AddTx, every per-sender list is within both per-sender limits.
C4_SenderLimitsHoldAfterAddTx ==
    last.op = "AddTx" =>
        \A s \in DOMAIN cache.txListBySender :
            WithinSenderLimits(cache.txListBySender[s], config)

C4_Witness ==
    /\ LastAddedTx
    /\ Len(last.evicted) >= 2
    /\ last.w.hash \notin Range(last.evicted)

\* C5: when the insertion of AddTx makes the sender's list violate a limit, the
\* list kept is the longest prefix of the ordered list (old list plus the new
\* transaction) within both limits, what was dropped is the rest of it taken
\* from the back, the dropped hashes are not in txByHash, and no other
\* sender's list changes.
C5_OverflowDropsTail ==
    LET h == last.w.hash
        s == SenderOf(h)
        old == ListOf(last.beforeInsertion, s)
        kept == ListOf(cache, s)
        full == kept \o Reverse(last.evicted)
    IN (/\ LastAddedTx
        /\ h \notin Range(old)
        /\ ~WithinSenderLimits(Append(old, h), config)) =>
           /\ Len(last.evicted) > 0
           /\ IsSorted(full)
           /\ Len(full) = Len(old) + 1
           /\ Range(full) = Range(old) \cup {h}
           /\ WithinSenderLimits(kept, config)
           /\ ~WithinSenderLimits(SubSeq(full, 1, Len(kept) + 1), config)
           /\ \A g \in Range(last.evicted) : g \notin cache.txByHash
           /\ \A x \in Senders \ {s} : ListOf(cache, x) = ListOf(last.beforeInsertion, x)

C5_Witness ==
    /\ LastAddedTx
    /\ Len(last.evicted) >= 2
    /\ last.w.hash \notin Range(last.evicted)
    /\ \E x \in Senders \ {SenderOf(last.w.hash)} : Len(ListOf(cache, x)) > 0

\* C7 (as claimed): AddTx of a transaction present in both maps returns
\* (true, false) and leaves the maps and the counters as they were.
C7_AddTxIdempotent ==
    (/\ LastAddedTx
     /\ last.w.hash \in last.before.txByHash
     /\ InSenderList(last.before, last.w.hash)) =>
        /\ last.ok
        /\ ~last.added
        /\ cache = last.before

\* C7 (amended): the same, for calls that run no global eviction.
C7_AddTxIdempotentWithoutEviction ==
    (/\ LastAddedTx
     /\ last.w.hash \in last.before.txByHash
     /\ InSenderList(last.before, last.w.hash)
     /\ ~(config.EvictionEnabled /\ isCapacityExceeded(last.before, config))) =>
        /\ last.ok
        /\ ~last.added
        /\ cache = last.before

C7_Witness ==
    /\ LastAddedTx
    /\ last.w.hash \in last.before.txByHash
    /\ InSenderList(last.before, last.w.hash)
    /\ config.EvictionEnabled
    /\ ~isCapacityExceeded(last.before, config)
    /\ CountTx(cache) >= 2

\* C8 (as claimed): AddTx of a nil wrapper, or of a wrapper with a nil
\* transaction, returns (false, false), runs no eviction and changes nothing,
\* and the hash carried by the wrapper is not findable afterwards.
C8_AddNilTxDoesNothing ==
    (last.op = "AddTx" /\ last.w.kind # "tx") =>
        /\ ~last.ok
        /\ ~last.added
        /\ ~last.evictionRan
        /\ cache = last.before
        /\ last.w.kind = "nilTx" => ~GetByTxHash(cache, last.w.hash)

\* C8 (amended): the same, the hash carried by the wrapper being not findable
\* afterwards when it was not findable before the call.
C8_AddNilTxChangesNothing ==
    (last.op = "AddTx" /\ last.w.kind # "tx") =>
        /\ ~last.ok
        /\ ~last.added
        /\ ~last.evictionRan
        /\ cache = last.before
        /\ (last.w.kind = "nilTx" /\ ~GetByTxHash(last.before, last.w.hash))
               => ~GetByTxHash(cache, last.w.hash)

C8_Witness ==
    /\ last.op = "AddTx"
    /\ last.w.kind = "nilTx"
    /\ ~GetByTxHash(cache, last.w.hash)
    /\ config.EvictionEnabled
    /\ isCapacityExceeded(last.before, config)

\* C9: RemoveTxByHash of a hash that is not a key of txByHash returns false and
\* changes nothing.
C9_RemoveMissingDoesNothing ==
    (last.op = "RemoveTxByHash" /\ last.w.hash \notin last.before.txByHash) =>
        /\ ~last.removed
        /\ cache = last.before

C9_Witness ==
    /\ last.op = "RemoveTxByHash"
    /\ last.w.hash \notin last.before.txByHash
    /\ \E g \in Range(ListOf(last.before, SenderOf(last.w.hash))) :
           NonceOf(g) <= NonceOf(last.w.hash)

\* C10: with eviction enabled, limits not binding and only AddTx calls of
\* transactions with new hashes and new (sender, nonce) pairs, CountTx never
\* exceeds CountThreshold + 1.
C10_CountAtMostThresholdPlusOne ==
    (config.EvictionEnabled /\ LimitsNotBinding(config) /\ calls.distinctAdds) =>
        CountTx(cache) <= config.CountThreshold + 1

C10_Witness ==
    /\ config.EvictionEnabled
    /\ LimitsNotBinding(config)
    /\ calls.distinctAdds
    /\ LastAddedTx
    /\ last.evictionRan
    /\ CountTx(cache) = config.CountThreshold + 1

AllReturned == \A p \in Procs : procs[p].pc = "idle"

\* C2 (as claimed): once all concurrent AddTx and RemoveTxByHash calls have
\* returned, every hash of txByHash is in its sender's list and every
\* transaction of a sender's list has its hash in txByHash.
C2_MapsAgreeAtQuiescence ==
    AllReturned =>
        \A h \in Hashes : (h \in cache.txByHash) <=> InSenderList(cache, h)

\* C6 (as claimed): a transaction whose AddTx has returned and that was not
\* removed since by a cascade, an overflow or Clear is found by GetByTxHash.
C6_AddedTxIsFound ==
    \A h \in live : GetByTxHash(cache, h)

\* C11 (as claimed): the capacity is exceeded exactly when one of the three
\* counters is above its threshold; when it is not, doEviction returns nil and
\* removes nothing; a run of AddTx calls that never finds the capacity exceeded
\* keeps every transaction it added.
C11_NoEvictionWithinCapacity ==
    /\ (LastAddedTx /\ config.EvictionEnabled) =>
           /\ last.evictionRan <=>
                  \/ NumBytes(last.before) > config.NumBytesThreshold
                  \/ CountSenders(last.before) > config.CountThreshold
                  \/ CountTx(last.before) > config.CountThreshold
           /\ ~last.evictionRan => last.beforeInsertion = last.before
    /\ calls.withinCapacity =>
           \A h \in calls.seen : h \in cache.txByHash /\ InSenderList(cache, h)

\* C11 (amended): the same, the run keeping every added transaction when the
\* per-sender limits do not bind.
C11_NoEvictionWithinCapacityAndLimits ==
    /\ (LastAddedTx /\ config.EvictionEnabled) =>
           /\ last.evictionRan <=>
                  \/ NumBytes(last.before) > config.NumBytesThreshold
                  \/ CountSenders(last.before) > config.CountThreshold
                  \/ CountTx(last.before) > config.CountThreshold
           /\ ~last.evictionRan => last.beforeInsertion = last.before
    /\ (/\ calls.withinCapacity
        /\ config.NumBytesPerSenderThreshold >= NumTxs * MaxSize
        /\ config.CountPerSenderThreshold >= NumTxs) =>
           \A h \in calls.seen : h \in cache.txByHash /\ InSenderList(cache, h)

C11_Witness ==
    /\ LastAddedTx
    /\ config.EvictionEnabled
    /\ calls.withinCapacity
    /\ config.CountPerSenderThreshold >= NumTxs
    /\ CountTx(last.before) = config.CountThreshold
    /\ CountTx(cache) = config.CountThreshold + 1
    /\ Cardinality(calls.seen) = CountTx(cache)

\* C12: at most one goroutine at a time executes the eviction body, it holds
\* evictionMutex, and isEvictionInProgress is set only while some goroutine
\* holds evictionMutex.
C12_OneEvictionAtATime ==
    /\ Cardinality({p \in Procs : procs[p].pc \in EvictionBodyPcs}) <= 1
    /\ \A p \in Procs : procs[p].pc \in EvictionBodyPcs => eviction.evictionMutex = p
    /\ eviction.isEvictionInProgress =>
           /\ eviction.evictionMutex \in Procs
           /\ procs[eviction.evictionMutex].pc \in
                  {"evict_recheck", "evict_snapshot", "evict_pass", "evict_resetFlag"}

C12_Witness ==
    \E p, q \in Procs :
        /\ procs[p].pc = "evict_pass"
        /\ eviction.isEvictionInProgress
        /\ procs[q].pc = "evict_lock"

RECURSIVE RemainingInHeap(_)
RemainingInHeap(heap) ==
    IF heap = {}
    THEN 0
    ELSE LET item == CHOOSE x \in heap : TRUE
         IN (Len(item.bunch) - item.index + 1) + RemainingInHeap(heap \ {item})

\* C14: every pass that goes on to another pass takes at least one transaction
\* off the snapshot, and a goroutine inside doEviction leaves it eventually,
\* also when other AddTx calls keep the capacity exceeded.
C14_DoEvictionTerminates ==
    /\ [][(\E p \in Procs : /\ procs[p].pc = "evict_pass"
                             /\ procs'[p].pc = "evict_pass"
                             /\ eviction'.heap # eviction.heap)
             => RemainingInHeap(eviction'.heap) < RemainingInHeap(eviction.heap)]_vars
    /\ \A p \in Procs :
           (procs[p].pc \in DoEvictionPcs) ~> (procs[p].pc \notin DoEvictionPcs)

\* The snapshot is used up while other calls have made the capacity exceeded again.
C14_Witness ==
    \E p \in Procs :
        /\ procs[p].pc = "evict_pass"
        /\ eviction.heap = {}
        /\ isCapacityExceeded(cache, config)
        /\ \E q \in Procs \ {p} : procs[q].skippedEviction


\* ------------------------------------------------------- claims: selection
\* What the session said about an account: its nonce, 0 when it gave an error
\* (the record is then {0, 0, 0}).
AccountNonce(session, address) ==
    IF session.accounts[address].err THEN 0 ELSE session.accounts[address].Nonce

\* The transactions of a sender in a list of transactions, in the list's order.
SelectedOf(transactions, sender) ==
    SelectSeq(transactions, LAMBDA h : SenderOf(h) = sender)

SelectionDone == last.op = "SelectTransactions" /\ last.consulted

RECURSIVE SumOfGasLimits(_)
SumOfGasLimits(transactions) ==
    IF transactions = <<>>
    THEN 0
    ELSE GasLimitOf(Head(transactions)) + SumOfGasLimits(Tail(transactions))

\* C16: the gas SelectTransactions returns is the sum of the gas limits of the
\* transactions it returns and is at most gasRequested; it returns at most
\* maxNum transactions.
C16_GasAndCountWithinRequest ==
    last.op = "SelectTransactions" =>
        /\ last.accumulatedGas = SumOfGasLimits(last.transactions)
        /\ last.accumulatedGas <= last.gasRequested
        /\ Len(last.transactions) <= last.maxNum

\* A selection that used up the gas requested and reached maxNum while the
\* cache held more transactions than it returned.
C16_Witness ==
    /\ SelectionDone
    /\ last.gasRequested = SmallGas
    /\ last.maxNum = SmallMaxNum
    /\ last.accumulatedGas = last.gasRequested
    /\ Len(last.transactions) = last.maxNum
    /\ Cardinality(last.before.txByHash) > Len(last.transactions)

C18_NilSessionSelectsNothing ==
    (last.op = "SelectTransactions" /\ last.session = NilSession) =>
        /\ last.transactions = <<>>
        /\ last.accumulatedGas = 0
        /\ ~last.consulted
        /\ cache = last.before

\* A selection with a nil session, no limit in the request, on a cache that
\* holds transactions.
C18_Witness ==
    /\ last.op = "SelectTransactions"
    /\ last.session = NilSession
    /\ last.gasRequested = NotBinding
    /\ last.maxNum = NotBinding
    /\ Cardinality(cache.txByHash) >= 2

\* What the session said about an account: its balance, 0 when it gave an
\* error.
AccountBalance(session, address) ==
    IF session.accounts[address].err THEN 0 ELSE session.accounts[address].Balance

\* What a list of selected transactions has consumed of an account: the fees
\* it pays and the values it sends.
RECURSIVE ConsumedBy(_, _)
ConsumedBy(transactions, address) ==
    IF transactions = <<>>
    THEN 0
    ELSE (IF FeePayerOf(Head(transactions)) = address THEN FeeOf(Head(transactions)) ELSE 0)
             + (IF SenderOf(Head(transactions)) = address
                THEN TransferredValueOf(Head(transactions))
                ELSE 0)
             + ConsumedBy(Tail(transactions), address)

\* The transactions selected before the i-th iteration of the loop.
RECURSIVE SelectedBefore(_, _)
SelectedBefore(trace, i) ==
    IF i <= 1
    THEN <<>>
    ELSE IF trace[i - 1].outcome = "selected"
         THEN Append(SelectedBefore(trace, i - 1), trace[i - 1].tx)
         ELSE SelectedBefore(trace, i - 1)

\* At the i-th iteration the fee of the transaction does not fit in what is
\* left of its fee payer's balance.
FeeExceedsBalanceAt(i) ==
    LET tx == last.trace[i].tx
    IN ConsumedBy(SelectedBefore(last.trace, i), FeePayerOf(tx)) + FeeOf(tx)
           > AccountBalance(last.session, FeePayerOf(tx))

\* C19: a transaction is selected only if, at that moment, what its fee payer
\* has consumed plus its fee is at most the fee payer's initial balance; when
\* that check fails the transaction is not returned and no later transaction
\* of its sender is selected.
C19_FeeWithinBalance ==
    SelectionDone =>
        /\ SelectedBefore(last.trace, Len(last.trace) + 1) = last.transactions
        /\ \A i \in 1..Len(last.trace) :
              last.trace[i].outcome = "selected" => ~FeeExceedsBalanceAt(i)
        /\ \A i \in 1..Len(last.trace) :
              (last.trace[i].outcome \in {"selected", "feeExceeds"} /\ FeeExceedsBalanceAt(i)) =>
                  /\ last.trace[i].tx \notin Range(last.transactions)
                  /\ \A j \in (i + 1)..Len(last.trace) :
                         SenderOf(last.trace[j].tx) = SenderOf(last.trace[i].tx)
                             => last.trace[j].outcome # "selected"

\* A selection in which a fee alone would fit in the balance but not with
\* what was consumed before, while the sender has a later transaction pending;
\* and in which a transaction was selected after its fee payer had consumed
\* something.
C19_Witness ==
    /\ SelectionDone
    /\ \E i \in 1..Len(last.trace) :
          /\ last.trace[i].outcome = "feeExceeds"
          /\ FeeExceedsBalanceAt(i)
          /\ FeeOf(last.trace[i].tx) <= AccountBalance(last.session, FeePayerOf(last.trace[i].tx))
          /\ \E h \in Range(ListOf(last.before, SenderOf(last.trace[i].tx))) :
                NonceOf(h) > NonceOf(last.trace[i].tx)
    /\ \E i \in 1..Len(last.trace) :
          /\ last.trace[i].outcome = "selected"
          /\ ConsumedBy(SelectedBefore(last.trace, i), FeePayerOf(last.trace[i].tx)) > 0

\* C20: a transaction the session reports as incorrectly guarded is not
\* returned, and once the session has reported it no later transaction of its
\* sender is selected.
C20_IncorrectlyGuardedStopsSender ==
    SelectionDone =>
        /\ Range(last.transactions) \cap last.session.guarded = {}
        /\ \A i \in 1..Len(last.trace) :
              (last.trace[i].tx \in last.session.guarded /\ last.trace[i].outcome # "skipTx") =>
                  \A j \in (i + 1)..Len(last.trace) :
                      SenderOf(last.trace[j].tx) = SenderOf(last.trace[i].tx)
                          => last.trace[j].outcome # "selected"

\* A selection that had selected a transaction of a sender, then met an
\* incorrectly guarded one of the same sender, whose next nonce was pending
\* too, and went on with another sender.
C20_Witness ==
    /\ SelectionDone
    /\ \E i \in 1..Len(last.trace) :
          /\ last.trace[i].outcome = "guarded"
          /\ last.trace[i].tx \in last.session.guarded
          /\ \E j \in 1..(i - 1) :
                /\ last.trace[j].outcome = "selected"
                /\ SenderOf(last.trace[j].tx) = SenderOf(last.trace[i].tx)
          /\ \E h \in Range(ListOf(last.before, SenderOf(last.trace[i].tx))) :
                NonceOf(h) = NonceOf(last.trace[i].tx) + 1
          /\ \E j \in (i + 1)..Len(last.trace) : last.trace[j].outcome = "selected"

\* C21: whenever the selection emits a transaction, its price per gas unit is
\* at least that of the current transaction of every other sender in the heap.
C21_HighestPricePerUnitFirst ==
    SelectionDone =>
        \A i \in 1..Len(last.trace) :
            last.trace[i].outcome = "selected" =>
                \A h \in last.trace[i].candidates :
                    PricePerUnitOf(last.trace[i].tx) >= PricePerUnitOf(h)

\* A selection that emitted a transaction while another sender's current
\* transaction had a strictly lower price per gas unit, and emitted that one
\* later.
C21_Witness ==
    /\ SelectionDone
    /\ \E i \in 1..Len(last.trace) :
          /\ last.trace[i].outcome = "selected"
          /\ \E h \in last.trace[i].candidates :
                /\ PricePerUnitOf(last.trace[i].tx) > PricePerUnitOf(h)
                /\ \E j \in (i + 1)..Len(last.trace) :
                      last.trace[j].tx = h /\ last.trace[j].outcome = "selected"

\* ---------------------------------------------------- claims: construction
\* C22: NewTxCache returns no cache and an InvalidConfig error when Name is
\* empty or one of NumChunks, NumBytesThreshold, NumBytesPerSenderThreshold,
\* CountThreshold, CountPerSenderThreshold is zero, whatever the host; with a
\* configuration that verify() accepts and a nil host it returns no cache and
\* errNilMempoolHost.
C22_NewTxCacheRejectsBadArguments ==
    last.op = "NewTxCache" =>
        /\ (\/ last.newConfig.Name = ""
            \/ last.newConfig.NumChunks = 0
            \/ last.newConfig.NumBytesThreshold = 0
            \/ last.newConfig.NumBytesPerSenderThreshold = 0
            \/ last.newConfig.CountThreshold = 0
            \/ last.newConfig.CountPerSenderThreshold = 0)
               => (~last.created /\ last.err = "ErrInvalidConfig")
        /\ (verify(last.newConfig) /\ last.host = "nil")
               => (~last.created /\ last.err = "errNilMempoolHost")
        /\ (~verify(last.newConfig) /\ last.host = "nil") => last.err = "ErrInvalidConfig"

\* NewTxCache called with a nil host and a configuration whose only defect is
\* a zero CountThreshold: the configuration is what is reported.
C22_Witness ==
    /\ last.op = "NewTxCache"
    /\ last.host = "nil"
    /\ last.newConfig.Name # ""
    /\ last.newConfig.NumChunks # 0
    /\ last.newConfig.NumBytesThreshold = maxNumBytesUpperBound
    /\ last.newConfig.NumBytesPerSenderThreshold = maxNumBytesPerSenderUpperBound
    /\ last.newConfig.CountPerSenderThreshold # 0
    /\ last.newConfig.CountThreshold = 0
    /\ last.err = "ErrInvalidConfig"

\* ------------------------------------------- claims: maps that disagree
\* C23: when every goroutine has run AddTx(tx) and then RemoveTxByHash of its
\* hash, txByHash is empty and the sender map holds at most one sender; after
\* one more AddTx(tx) the transaction is found by hash and is the only one of
\* its sender's list.
C23_StormLeavesCacheUsable ==
    /\ (StormQuiescent /\ storm.further = "waiting") =>
           /\ cache.txByHash = {}
           /\ CountTx(cache) = 0
           /\ Cardinality(DOMAIN cache.txListBySender) \in {0, 1}
    /\ (StormQuiescent /\ storm.further = "called") =>
           /\ GetByTxHash(cache, storm.tx)
           /\ ListOf(cache, SenderOf(storm.tx)) = <<storm.tx>>

\* All goroutines have finished and the further AddTx has returned.
C23_Witness ==
    /\ StormQuiescent
    /\ storm.further = "called"
    /\ cache.txByHash = {storm.tx}

InExactlyOneMap(c, h) == (h \in c.txByHash) # InSenderList(c, h)

InBothMapsOnce(c, h) ==
    /\ h \in c.txByHash
    /\ Cardinality(PlacesOf(c, h)) = 1
    /\ HasSender(c, SenderOf(h))
    /\ CountSenders(c) = Cardinality(DOMAIN c.txListBySender)

\* C24 (as claimed): AddTx of a transaction that is in exactly one of the two
\* maps returns (true, true) and leaves it in both maps exactly once, its
\* sender counted once.
C24_AddTxRepairsMaps ==
    (LastAddedTx /\ InExactlyOneMap(last.before, last.w.hash)) =>
        /\ last.ok
        /\ last.added
        /\ InBothMapsOnce(cache, last.w.hash)

\* C24 (amended): the same, unless the limits of the sender drop the
\* transaction again in the same call; AddTx returns (true, true) also then.
C24_AddTxRepairsMapsUnlessDropped ==
    (LastAddedTx /\ InExactlyOneMap(last.before, last.w.hash)) =>
        /\ last.ok
        /\ last.added
        /\ last.w.hash \notin Range(last.evicted) => InBothMapsOnce(cache, last.w.hash)

\* AddTx of a transaction that was in txByHash only, whose sender had other
\* transactions, and which the limits did not drop.
C24_Witness ==
    /\ LastAddedTx
    /\ last.w.hash \in last.before.txByHash
    /\ ~InSenderList(last.before, last.w.hash)
    /\ ListOf(last.before, SenderOf(last.w.hash)) # <<>>
    /\ last.w.hash \notin Range(last.evicted)
    /\ InBothMapsOnce(cache, last.w.hash)

\* C25: RemoveTxByHash of a hash that is in txByHash but not in its sender's
\* list returns true and removes the hash from txByHash.
C25_RemoveTakesOrphanOutOfByHash ==
    (/\ last.op = "RemoveTxByHash"
     /\ last.w.hash \in last.before.txByHash
     /\ ~InSenderList(last.before, last.w.hash)) =>
        /\ last.removed
        /\ ~GetByTxHash(cache, last.w.hash)
        /\ CountTx(cache) < CountTx(last.before)

\* RemoveTxByHash of such a hash, whose sender's list held other transactions.
C25_Witness ==
    /\ last.op = "RemoveTxByHash"
    /\ last.w.hash \in last.before.txByHash
    /\ ~InSenderList(last.before, last.w.hash)
    /\ ListOf(last.before, SenderOf(last.w.hash)) # <<>>
    /\ last.removed

\* ------------------------------------------------ claims: eviction passes
\* The hashes held by the per-sender lists.
ListedHashes(c) == UNION {Range(c.txListBySender[s]) : s \in DOMAIN c.txListBySender}

\* C26: when doEviction has run with no other call in flight, the transactions
\* it removed from the per-sender lists are exactly those it removed from
\* txByHash.
C26_EvictionRemovesSameFromBothMaps ==
    (LastAddedTx /\ last.evictionRan) =>
        ListedHashes(last.before) \ ListedHashes(last.beforeInsertion)
            = last.before.txByHash \ last.beforeInsertion.txByHash

\* The passes of the eviction the last AddTx ran, the snapshot it took, and
\* what the passes before the i-th one collected.
LastPasses ==
    IF LastAddedTx /\ last.evictionRan
    THEN EvictionPassRecords(last.before, InitialHeap(last.before), <<>>, config)
    ELSE <<>>

SnapshotOf(sender) == Range(ListOf(last.before, sender))

CollectedBefore(passes, i) ==
    UNION {Range(passes[j].transactionsToEvict) : j \in 1..(i - 1)}

\* The transactions a cursor still leads to.
ReachableThrough(item) == {item.bunch[k] : k \in item.index..Len(item.bunch)}

\* C27: at the start of every pass, each sender that still has uncollected
\* transactions of the snapshot has exactly one cursor in the heap, and the
\* cursor leads to all of them.
C27_EverySenderKeepsItsCursor ==
    LET passes == LastPasses
    IN \A i \in 1..Len(passes) :
           \A s \in Senders :
               LET uncollected == SnapshotOf(s) \ CollectedBefore(passes, i)
                   cursors == {item \in passes[i].heapBefore : item.sender = s}
               IN uncollected # {} =>
                      /\ Cardinality(cursors) = 1
                      /\ \A item \in cursors : ReachableThrough(item) = uncollected

\* The nonces of a sender's transactions collected in a pass.
CollectedNoncesOf(pass, sender) ==
    {NonceOf(h) : h \in {x \in Range(pass.transactionsToEvict) : SenderOf(x) = sender}}

\* C28: in every pass and for every sender with a transaction collected in it,
\* the nonce handed to removeTransactionsWithHigherOrEqualNonce is the lowest
\* nonce among the sender's transactions collected in the pass.
C28_LowestNonceIsPassed ==
    LET passes == LastPasses
    IN \A i \in 1..Len(passes) :
           \A s \in Senders :
               CollectedNoncesOf(passes[i], s) # {} =>
                   /\ s \in DOMAIN passes[i].lowestToEvictBySender
                   /\ \A n \in CollectedNoncesOf(passes[i], s) :
                          passes[i].lowestToEvictBySender[s] <= n
                   /\ passes[i].lowestToEvictBySender[s] \in CollectedNoncesOf(passes[i], s)

\* A pass collected two transactions of one sender with different nonces.
C28_Witness ==
    \E i \in 1..Len(LastPasses) :
        \E s \in Senders :
            /\ Cardinality(CollectedNoncesOf(LastPasses[i], s)) >= 2
            /\ \A n \in CollectedNoncesOf(LastPasses[i], s) :
                   LastPasses[i].lowestToEvictBySender[s] <= n

IsPrefixOf(short, long) ==
    /\ Len(short) <= Len(long)
    /\ short = SubSeq(long, 1, Len(short))

\* C29: after every pass, a sender with a transaction of nonce n collected in
\* the pass has no transaction of nonce n or higher left in its list, and
\* every sender's list is a prefix, lowest nonces first, of its list before
\* the pass.
C29_NoHigherNonceIsStranded ==
    LET passes == LastPasses
    IN \A i \in 1..Len(passes) :
           \A s \in Senders :
               /\ \A n \in CollectedNoncesOf(passes[i], s) :
                      \A h \in Range(ListOf(passes[i].cacheAfter, s)) : NonceOf(h) < n
               /\ IsPrefixOf(ListOf(passes[i].cacheAfter, s), ListOf(passes[i].cacheBefore, s))

\* A pass collected from a sender and left it a shorter list that is not empty.
C29_Witness ==
    \E i \in 1..Len(LastPasses) :
        \E s \in Senders :
            /\ CollectedNoncesOf(LastPasses[i], s) # {}
            /\ ListOf(LastPasses[i].cacheAfter, s) # <<>>
            /\ Len(ListOf(LastPasses[i].cacheAfter, s)) < Len(ListOf(LastPasses[i].cacheBefore, s))
            /\ \A h \in Range(ListOf(LastPasses[i].cacheAfter, s)) :
                   \A n \in CollectedNoncesOf(LastPasses[i], s) : NonceOf(h) < n

\* The transactions the cursors of a heap lead to.
ReachableThroughHeap(heap) == UNION {ReachableThrough(item) : item \in heap}

MinOf(a, b) == IF a <= b THEN a ELSE b

\* C30: every pass collects min(NumItemsToPreemptivelyEvict, transactions
\* reachable through the cursors of the heap it starts with) transactions,
\* never more than NumItemsToPreemptivelyEvict, and CountTx decreases by that
\* number in the pass.
C30_PassCollectsFullBatch ==
    LET passes == LastPasses
    IN \A i \in 1..Len(passes) :
           LET collected == Len(passes[i].transactionsToEvict)
           IN /\ collected = MinOf(config.NumItemsToPreemptivelyEvict,
                                   Cardinality(ReachableThroughHeap(passes[i].heapBefore)))
              /\ collected <= config.NumItemsToPreemptivelyEvict
              /\ CountTx(passes[i].cacheBefore) - CountTx(passes[i].cacheAfter) = collected

\* A pass had more transactions within reach than a batch holds and collected
\* a batch of two.
C30_Witness ==
    \E i \in 1..Len(LastPasses) :
        /\ config.NumItemsToPreemptivelyEvict = 2
        /\ Cardinality(ReachableThroughHeap(LastPasses[i].heapBefore)) > 2
        /\ Len(LastPasses[i].transactionsToEvict) = 2
        /\ CountTx(LastPasses[i].cacheAfter) = CountTx(LastPasses[i].cacheBefore) - 2

\* ------------------------------------------------ claims: the call AddTx
\* C31: AddTx of a transaction that neither map holds returns (true, true)
\* also when the per-sender limits evict that transaction during the call;
\* after such a call the transaction is in neither map and GetByTxHash does
\* not find it.
C31_AddedReportedThoughEvicted ==
    (/\ LastAddedTx
     /\ last.w.hash \notin last.beforeInsertion.txByHash
     /\ ~InSenderList(last.beforeInsertion, last.w.hash)
     /\ last.w.hash \in Range(last.evicted)) =>
        /\ last.ok
        /\ last.added
        /\ last.w.hash \notin cache.txByHash
        /\ ~InSenderList(cache, last.w.hash)
        /\ ~GetByTxHash(cache, last.w.hash)

C31_Witness ==
    /\ LastAddedTx
    /\ last.w.hash \notin last.beforeInsertion.txByHash
    /\ ~InSenderList(last.beforeInsertion, last.w.hash)
    /\ last.w.hash \in Range(last.evicted)
    /\ last.ok /\ last.added
    /\ ~GetByTxHash(cache, last.w.hash)

\* The keys of txByHash that belong to a sender's transactions.
HashesOfSender(c, sender) == {h \in c.txByHash : SenderOf(h) = sender}

\* C32: with global eviction disabled, AddTx of a transaction leaves the list
\* of every other sender and the txByHash entries of every other sender's
\* transactions as they were.
C32_AddTxTouchesOneSender ==
    (LastAddedTx /\ ~config.EvictionEnabled) =>
        \A s \in Senders \ {SenderOf(last.w.hash)} :
            /\ HasSender(cache, s) = HasSender(last.before, s)
            /\ ListOf(cache, s) = ListOf(last.before, s)
            /\ HashesOfSender(cache, s) = HashesOfSender(last.before, s)

\* An AddTx that changed its sender's list and dropped from it while another
\* sender held transactions.
C32_Witness ==
    /\ LastAddedTx /\ ~config.EvictionEnabled
    /\ Len(last.evicted) > 0
    /\ ListOf(cache, SenderOf(last.w.hash)) # ListOf(last.before, SenderOf(last.w.hash))
    /\ \E s \in Senders \ {SenderOf(last.w.hash)} :
           /\ ListOf(cache, s) # <<>>
           /\ ListOf(cache, s) = ListOf(last.before, s)
           /\ HashesOfSender(cache, s) = HashesOfSender(last.before, s)

\* ------------------------------------------- claims: the session wrapper
\* How many times the session was asked for an address.
NumRequestsFor(address) ==
    Cardinality({i \in 1..Len(sessionWrapper.requests) :
                    sessionWrapper.requests[i] = address})

\* A step keeps every record and what it holds as initial nonce and balance.
InitialsKept ==
    \A a \in DOMAIN sessionWrapper.recordsByAddress :
        /\ a \in DOMAIN sessionWrapper'.recordsByAddress
        /\ sessionWrapper'.recordsByAddress[a].initialNonce
               = sessionWrapper.recordsByAddress[a].initialNonce
        /\ sessionWrapper'.recordsByAddress[a].initialBalance
               = sessionWrapper.recordsByAddress[a].initialBalance

\* C33: the wrapper asks the session for an address at most once, also when
\* the request failed, and no call of getNonce, detectWillFeeExceedBalance or
\* accumulateConsumedBalance changes the initial nonce or the initial balance
\* recorded for an address.
C33_AccountStateAskedOnce ==
    /\ [](\A a \in Senders : NumRequestsFor(a) <= 1)
    /\ [][InitialsKept]_vars

\* An address whose request failed was consulted again after its record was
\* made and used.
C33_Witness ==
    \E a \in Senders :
        /\ selectionSession.accounts[a].err
        /\ a \in DOMAIN sessionWrapper.recordsByAddress
        /\ sessionWrapper.recordsByAddress[a].consumedBalance > 0
        /\ last.op = "getNonce" /\ last.address = a
        /\ NumRequestsFor(a) = 1

\* A step that makes the record of an address whose request fails, in a call
\* that adds nothing to it, leaves the record {0, 0, 0}.
ErrorRecordIsZero ==
    \A a \in Senders :
        (/\ selectionSession.accounts[a].err
         /\ a \notin DOMAIN sessionWrapper.recordsByAddress
         /\ a \in DOMAIN sessionWrapper'.recordsByAddress
         /\ last'.op # "accumulateConsumedBalance") =>
            sessionWrapper'.recordsByAddress[a]
                = [initialNonce |-> 0, initialBalance |-> 0, consumedBalance |-> 0]

\* C34: the record of an address for which the session returns an error is
\* made as initial nonce 0, initial balance 0, consumed balance 0, and every
\* transaction with a positive fee paid by that address is found to exceed
\* the balance.
C34_FailedAccountPaysNothing ==
    /\ [][ErrorRecordIsZero]_vars
    /\ [](\A a \in Senders :
             (selectionSession.accounts[a].err
              /\ a \in DOMAIN sessionWrapper.recordsByAddress) =>
                 /\ sessionWrapper.recordsByAddress[a].initialNonce = 0
                 /\ sessionWrapper.recordsByAddress[a].initialBalance = 0)
    /\ []((/\ last.op = "detectWillFeeExceedBalance"
           /\ FeeOf(last.w.hash) > 0
           /\ selectionSession.accounts[FeePayerOf(last.w.hash)].err) => last.ok)

\* The balance check was the first call for an address whose request fails.
C34_Witness ==
    /\ last.op = "detectWillFeeExceedBalance"
    /\ FeeOf(last.w.hash) > 0
    /\ selectionSession.accounts[FeePayerOf(last.w.hash)].err
    /\ last.ok
    /\ sessionWrapper.requests = <<FeePayerOf(last.w.hash)>>
    /\ sessionWrapper.recordsByAddress[FeePayerOf(last.w.hash)]
           = [initialNonce |-> 0, initialBalance |-> 0, consumedBalance |-> 0]

\* What a wrapper holds as consumed for an address: 0 without a record.
ConsumedBalanceOf(wrapper, address) ==
    IF address \in DOMAIN wrapper.recordsByAddress
    THEN wrapper.recordsByAddress[address].consumedBalance
    ELSE 0

\* What accumulateConsumedBalance of a transaction adds for an address.
AddedBy(h, address) ==
    (IF address = SenderOf(h) /\ TransferredValueOf(h) # NilAmount
     THEN TransferredValueOf(h) ELSE 0)
    + (IF address = FeePayerOf(h) /\ FeeOf(h) # NilAmount THEN FeeOf(h) ELSE 0)

\* The effect of a step on the consumed balances.
ConsumedBalanceStep ==
    /\ \A a \in Senders : ConsumedBalanceOf(sessionWrapper', a) >= ConsumedBalanceOf(sessionWrapper, a)
    /\ last'.op # "accumulateConsumedBalance" =>
           \A a \in Senders : ConsumedBalanceOf(sessionWrapper', a) = ConsumedBalanceOf(sessionWrapper, a)
    /\ last'.op = "accumulateConsumedBalance" =>
           /\ {SenderOf(last'.w.hash), FeePayerOf(last'.w.hash)}
                  \subseteq DOMAIN sessionWrapper'.recordsByAddress
           /\ \A a \in Senders :
                  ConsumedBalanceOf(sessionWrapper', a)
                      = ConsumedBalanceOf(sessionWrapper, a) + AddedBy(last'.w.hash, a)
           /\ \A a \in Senders \ {SenderOf(last'.w.hash), FeePayerOf(last'.w.hash)} :
                  /\ (a \in DOMAIN sessionWrapper'.recordsByAddress)
                         = (a \in DOMAIN sessionWrapper.recordsByAddress)
                  /\ a \in DOMAIN sessionWrapper.recordsByAddress =>
                         sessionWrapper'.recordsByAddress[a] = sessionWrapper.recordsByAddress[a]

\* C35: accumulateConsumedBalance of a transaction adds TransferredValue to
\* the consumed balance of the sender and Fee to the one of the fee payer, a
\* missing amount adding nothing, and changes the record of no other address;
\* consumed balances start at 0 and never decrease.
C35_ConsumedBalanceAccumulates ==
    /\ \A a \in Senders : ConsumedBalanceOf(sessionWrapper, a) = 0
    /\ [][ConsumedBalanceStep]_vars

\* A relayed transaction was accumulated: its value on the sender's record,
\* its fee on the fee payer's.
C35_Witness ==
    /\ last.op = "accumulateConsumedBalance"
    /\ SenderOf(last.w.hash) # FeePayerOf(last.w.hash)
    /\ TransferredValueOf(last.w.hash) > 0
    /\ FeeOf(last.w.hash) > 0
    /\ ConsumedBalanceOf(sessionWrapper, SenderOf(last.w.hash))
           = TransferredValueOf(last.w.hash)
    /\ ConsumedBalanceOf(sessionWrapper, FeePayerOf(last.w.hash)) = FeeOf(last.w.hash)

\* The fees an address pays for in a list of selected transactions.
RECURSIVE FeesPaidBy(_, _)
FeesPaidBy(transactions, address) ==
    IF transactions = <<>>
    THEN 0
    ELSE (IF FeePayerOf(Head(transactions)) = address /\ FeeOf(Head(transactions)) # NilAmount
          THEN FeeOf(Head(transactions))
          ELSE 0)
             + FeesPaidBy(Tail(transactions), address)

\* C36: at every point of a selection and for every address, the fees of the
\* transactions selected so far that the address pays for sum up to at most
\* the initial balance of the address.
C36_FeesPaidWithinInitialBalance ==
    SelectionDone =>
        \A k \in 0..Len(last.transactions) :
            \A a \in Senders :
                FeesPaidBy(SubSeq(last.transactions, 1, k), a) <= AccountBalance(last.session, a)

\* A selection in which an address paid fees up to its whole balance and a
\* relayed transaction it would pay for was turned away afterwards.
C36_Witness ==
    /\ SelectionDone
    /\ \E a \in Senders :
          /\ AccountBalance(last.session, a) = SmallBalance
          /\ FeesPaidBy(last.transactions, a) = SmallBalance
          /\ \E i \in 1..Len(last.trace) :
                 /\ last.trace[i].outcome = "feeExceeds"
                 /\ FeePayerOf(last.trace[i].tx) = a
                 /\ SenderOf(last.trace[i].tx) # a
                 /\ FeesPaidBy(SelectedBefore(last.trace, i), a) = SmallBalance

\* ------------------------------------------ claims: storage cacher adapter
\* The last call was made to an adapter whose Close had returned.
CalledAfterClose(ops) == last.op \in ops /\ last.adapterBefore.dbIsClosed

\* C37: once Close has returned, Put, Get, Has, Remove and Keys make no call
\* to the db and leave what it stores as it was: Get and Has answer from the
\* cacher, Remove takes the key out of the cacher only, Keys returns the keys
\* of the cacher.
C37_ClosedDbIsLeftAlone ==
    /\ CalledAfterClose({"Put", "Get", "Has", "Remove", "Keys"}) =>
           /\ last.dbCalls = {}
           /\ adapter.db = last.adapterBefore.db
           /\ adapter.dbIsClosed
    /\ CalledAfterClose({"Get", "Has"}) =>
           last.result = (last.address \in CacherKeys(last.adapterBefore.cacher))
    /\ CalledAfterClose({"Remove"}) =>
           adapter.cacher = CacherWithout(last.adapterBefore.cacher, last.address)
    /\ CalledAfterClose({"Keys"}) =>
           last.result = CacherKeys(last.adapterBefore.cacher)

\* Remove, after Close, of a key that the db stores and the cacher does not.
C37_Witness ==
    /\ CalledAfterClose({"Remove"})
    /\ last.address \in last.adapterBefore.db
    /\ last.address \notin CacherKeys(last.adapterBefore.cacher)
    /\ last.address \in adapter.db
    /\ last.dbCalls = {}

\* C38: Len is the length of the cacher plus numValuesInStorage, and
\* numValuesInStorage is the number of keys the db stores (none once it is
\* closed) and is never negative.
C38_LenCountsStoredValues ==
    /\ AdapterLen(adapter) = Len(adapter.cacher) + adapter.numValuesInStorage
    /\ adapter.numValuesInStorage
           = (IF adapter.dbIsClosed THEN 0 ELSE Cardinality(adapter.db))
    /\ adapter.numValuesInStorage >= 0

====
